---- MODULE Spec2Model ----
(***************************************************************************)
(* A model of the firmware-api worker: the release ingestion consumer      *)
(* (processManifest over the blob store, the release index and the         *)
(* processed-asset ledger) and the header-driven OTA check handler.        *)
(*                                                                         *)
(* Strings are TLA+ strings (sequences of characters); the string          *)
(* operators below are the JavaScript string methods the source calls.     *)
(***************************************************************************)
EXTENDS Integers, Sequences, FiniteSets, TLC

\* ------------------------------------------------------------------------
\* JavaScript string methods used by the source
\* ------------------------------------------------------------------------

Ch(s, i) == SubSeq(s, i, i)

StartsWith(s, p) == Len(s) >= Len(p) /\ SubSeq(s, 1, Len(p)) = p

EndsWith(s, p) == Len(s) >= Len(p) /\ SubSeq(s, Len(s) - Len(p) + 1, Len(s)) = p

\* String.prototype.indexOf, 1-based; 0 when sub does not occur.
IndexOf(s, sub) ==
    LET hits == {i \in 1..(Len(s) - Len(sub) + 1) : SubSeq(s, i, i + Len(sub) - 1) = sub}
    IN  IF hits = {} THEN 0 ELSE CHOOSE i \in hits : \A j \in hits : i <= j

Includes(s, sub) == IndexOf(s, sub) # 0

\* String.prototype.replace with a string pattern: the first occurrence only.
ReplaceFirst(s, sub, rep) ==
    LET i == IndexOf(s, sub)
    IN  IF i = 0 THEN s
        ELSE SubSeq(s, 1, i - 1) \o rep \o SubSeq(s, i + Len(sub), Len(s))

RECURSIVE MapChars(_, _)
MapChars(s, f) ==
    IF s = "" THEN ""
    ELSE (IF Ch(s, 1) \in DOMAIN f THEN f[Ch(s, 1)] ELSE Ch(s, 1)) \o MapChars(Tail(s), f)

UpperOf ==
    [c \in {"a","b","c","d","e","f","g","h","i","j","k","l","m",
            "n","o","p","q","r","s","t","u","v","w","x","y","z"} |->
       CASE c = "a" -> "A" [] c = "b" -> "B" [] c = "c" -> "C" [] c = "d" -> "D"
         [] c = "e" -> "E" [] c = "f" -> "F" [] c = "g" -> "G" [] c = "h" -> "H"
         [] c = "i" -> "I" [] c = "j" -> "J" [] c = "k" -> "K" [] c = "l" -> "L"
         [] c = "m" -> "M" [] c = "n" -> "N" [] c = "o" -> "O" [] c = "p" -> "P"
         [] c = "q" -> "Q" [] c = "r" -> "R" [] c = "s" -> "S" [] c = "t" -> "T"
         [] c = "u" -> "U" [] c = "v" -> "V" [] c = "w" -> "W" [] c = "x" -> "X"
         [] c = "y" -> "Y" [] c = "z" -> "Z"]

LowerLetters == DOMAIN UpperOf

UpperLetters == {UpperOf[c] : c \in LowerLetters}

LowerOf == [u \in UpperLetters |-> CHOOSE c \in LowerLetters : UpperOf[c] = u]

Digits == {"0","1","2","3","4","5","6","7","8","9"}

ToUpperCase(s) == MapChars(s, UpperOf)

ToLowerCase(s) == MapChars(s, LowerOf)

\* s.replace(/-/g, '_')
HyphensToUnderscores(s) == MapChars(s, [c \in {"-"} |-> "_"])

RECURSIVE TrimStart(_)
TrimStart(s) == IF s # "" /\ Ch(s, 1) = " " THEN TrimStart(Tail(s)) ELSE s

RECURSIVE TrimEnd(_)
TrimEnd(s) ==
    IF s # "" /\ Ch(s, Len(s)) = " " THEN TrimEnd(SubSeq(s, 1, Len(s) - 1)) ELSE s

\* String.prototype.trim
Trim(s) == TrimEnd(TrimStart(s))

\* s.split(sep) for a set of one-character separators: the sequence of pieces.
RECURSIVE SplitOn(_, _)
SplitOn(s, seps) ==
    LET cut == {i \in 1..Len(s) : Ch(s, i) \in seps}
    IN  IF cut = {} THEN <<s>>
        ELSE LET i == CHOOSE k \in cut : \A j \in cut : k <= j
             IN  <<SubSeq(s, 1, i - 1)>> \o SplitOn(SubSeq(s, i + 1, Len(s)), seps)

AllDigits(s) == \A i \in 1..Len(s) : Ch(s, i) \in Digits

DigitValue(c) ==
    CASE c = "0" -> 0 [] c = "1" -> 1 [] c = "2" -> 2 [] c = "3" -> 3 [] c = "4" -> 4
      [] c = "5" -> 5 [] c = "6" -> 6 [] c = "7" -> 7 [] c = "8" -> 8 [] c = "9" -> 9

RECURSIVE DecimalValue(_)
DecimalValue(s) ==
    IF s = "" THEN 0
    ELSE 10 * DecimalValue(SubSeq(s, 1, Len(s) - 1)) + DigitValue(Ch(s, Len(s)))

\* The value Number() gives for a string that is not a numeric literal.
NaN == -1

\* Number(s) on the strings the model draws: surrounding white space is dropped,
\* the empty string is 0, a run of decimal digits is its value, anything else NaN.
JsNumber(s) ==
    LET t == Trim(s)
    IN  IF t = "" THEN 0 ELSE IF AllDigits(t) THEN DecimalValue(t) ELSE NaN

\* Number.isInteger(n) && n >= 0
IsNonNegInteger(n) == n # NaN /\ n >= 0

\* The result of a failed parse.
Null == [null |-> TRUE]

\* input.trim().replace(/^v/i, '').split(/[+-]/)[0]
NormalizeVersion(input) ==
    LET t == Trim(input)
        u == IF StartsWith(t, "v") \/ StartsWith(t, "V") THEN Tail(t) ELSE t
    IN  SplitOn(u, {"+", "-"})[1]

SemverOfParts(parts) ==
    IF Len(parts) < 1 \/ Len(parts) > 3 THEN Null
    ELSE LET major == JsNumber(parts[1])
             minor == JsNumber(IF Len(parts) >= 2 THEN parts[2] ELSE "0")
             patch == JsNumber(IF Len(parts) >= 3 THEN parts[3] ELSE "0")
         IN  IF \A n \in {major, minor, patch} : IsNonNegInteger(n)
             THEN [major |-> major, minor |-> minor, patch |-> patch]
             ELSE Null

\* db.ts parseSemverComponents
parseSemverComponents(version) == SemverOfParts(SplitOn(NormalizeVersion(version), {"."}))

\* utils parseSemver
parseSemver(input) == SemverOfParts(SplitOn(NormalizeVersion(input), {"."}))

\* The triples compared as the numbers their digits spell when concatenated.
compareSemver_Concatenated(a, b) ==
    (100 * a.major + 10 * a.minor + a.patch) - (100 * b.major + 10 * b.minor + b.patch)

\* A device counted as older as soon as any one component is smaller.
compareSemver_AnyComponentLess(a, b) ==
    IF a.major < b.major \/ a.minor < b.minor \/ a.patch < b.patch THEN -1
    ELSE IF a = b THEN 0 ELSE 1

\* utils compareSemver: negative, zero or positive
compareSemver(a, b) ==
    IF a.major # b.major THEN a.major - b.major
    ELSE IF a.minor # b.minor THEN a.minor - b.minor
    ELSE a.patch - b.patch

\* ------------------------------------------------------------------------
\* Ingestion: tasks, upstream, stores
\* ------------------------------------------------------------------------

Workers == {"w1", "w2"}

\* The queue messages (types.ts ReleaseQueueMessage) the webhook has produced,
\* by manifest asset id. 101 and 102 are two uploads of the manifest of the
\* same (project, variant, version); 102 references a file the release lacks;
\* 201 carries a tag that is no semver. installationId 0 is "absent".
Tasks ==
    (101 :> [projectId |-> 1, projectSlug |-> "widget-fw", version |-> "1.2.0",
             manifestAssetId |-> 101, manifestFilename |-> "WIDGET_manifest.json",
             assets |-> {"WIDGET_manifest.json", "WIDGET_app.bin", "WIDGET.elf"},
             installationId |-> 7])
 @@ (102 :> [projectId |-> 1, projectSlug |-> "widget-fw", version |-> "1.2.0",
             manifestAssetId |-> 102, manifestFilename |-> "WIDGET_manifest.json",
             assets |-> {"WIDGET_manifest.json", "WIDGET_app.bin"},
             installationId |-> 0])
 @@ (201 :> [projectId |-> 2, projectSlug |-> "lamp-fw", version |-> "beta",
             manifestAssetId |-> 201, manifestFilename |-> "LAMP_manifest.json",
             assets |-> {"LAMP_manifest.json", "LAMP_app.bin"},
             installationId |-> 0])
 @@ (301 :> [projectId |-> 3, projectSlug |-> "panel-fw", version |-> "2.0.0",
             manifestAssetId |-> 301, manifestFilename |-> "PANEL_manifest.json",
             assets |-> {"PANEL_manifest.json", "PANEL_app.bin", "manifest.json"},
             installationId |-> 0])
 @@ (302 :> [projectId |-> 3, projectSlug |-> "panel-fw", version |-> "2.0.0",
             manifestAssetId |-> 302,
             manifestFilename |-> "PANEL_manifest.json.v2_manifest.json",
             assets |-> {"PANEL_manifest.json.v2_manifest.json", "PANEL_app.bin"},
             installationId |-> 7])

TaskIds == DOMAIN Tasks

\* The messages of the releases of the two firmware projects, and the messages
\* of a release whose asset names are unusual: 301 has an asset named
\* manifest.json that its manifest lists as a part, 302 has a manifest whose
\* name holds _manifest.json twice.
OrdinaryTaskIds == {101, 102, 201}

UnusualTaskIds == {301, 302}

NoTask == 0

\* The manifest document GitHub serves for a manifest asset (types.ts FirmwareManifest).
UpstreamManifest(id) ==
    CASE id = 101 -> [builds |-> << [chipFamily |-> "esp32s3",
                                    parts |-> << [path |-> "WIDGET_app.bin"] >>] >>]
      [] id = 102 -> [builds |-> << [chipFamily |-> "ESP32",
                                    parts |-> << [path |-> "missing.bin"],
                                                 [path |-> "WIDGET_app.bin"] >>] >>]
      [] id = 201 -> [builds |-> << [chipFamily |-> "xyz",
                                    parts |-> << [path |-> "LAMP_app.bin"] >>] >>]
      [] id = 301 -> [builds |-> << [chipFamily |-> "esp32c3",
                                    parts |-> << [path |-> "PANEL_app.bin"],
                                                 [path |-> "manifest.json"] >>] >>]
      [] id = 302 -> [builds |-> << [chipFamily |-> "esp32c3",
                                    parts |-> << [path |-> "PANEL_app.bin"] >>] >>]

\* The bytes GitHub serves for the asset `name` of a release.
UpstreamBytes(name) == [bytes |-> name]

\* The pattern without its anchor at the end: /^esp32([a-z]\d)?/i
normalizeChipFamily_Unanchored(chipFamily) ==
    IF ~StartsWith(ToLowerCase(chipFamily), "esp32") THEN chipFamily
    ELSE IF /\ Len(chipFamily) >= 7
            /\ Ch(chipFamily, 6) \in LowerLetters \cup UpperLetters
            /\ Ch(chipFamily, 7) \in Digits
         THEN "ESP32-" \o ToUpperCase(SubSeq(chipFamily, 6, 7))
                       \o SubSeq(chipFamily, 8, Len(chipFamily))
         ELSE "ESP32" \o SubSeq(chipFamily, 6, Len(chipFamily))

\* storage.ts normalizeChipFamily: /^esp32([a-z]\d)?$/i
normalizeChipFamily(chipFamily) ==
    IF ToLowerCase(chipFamily) = "esp32" THEN "ESP32"
    ELSE IF /\ Len(chipFamily) = 7
            /\ ToLowerCase(SubSeq(chipFamily, 1, 5)) = "esp32"
            /\ Ch(chipFamily, 6) \in LowerLetters \cup UpperLetters
            /\ Ch(chipFamily, 7) \in Digits
         THEN "ESP32-" \o ToUpperCase(SubSeq(chipFamily, 6, 7))
         ELSE chipFamily

\* processManifest: the chipFamily loop over manifestJson.builds
NormalizeManifest(m) ==
    [m EXCEPT !.builds =
        [i \in DOMAIN m.builds |->
            IF m.builds[i].chipFamily # ""
            THEN [m.builds[i] EXCEPT !.chipFamily = normalizeChipFamily(m.builds[i].chipFamily)]
            ELSE m.builds[i]]]

RECURSIVE Flatten(_)
Flatten(ss) == IF ss = <<>> THEN <<>> ELSE Head(ss) \o Flatten(Tail(ss))

\* A JavaScript Set filled in order: first occurrences, in insertion order.
RECURSIVE Dedup(_)
Dedup(q) ==
    IF q = <<>> THEN <<>>
    ELSE LET r == Dedup(SubSeq(q, 1, Len(q) - 1))
             e == q[Len(q)]
         IN  IF \E i \in DOMAIN r : r[i] = e THEN r ELSE Append(r, e)

\* processManifest: referencedFiles, every truthy part.path of every build
ReferencedFiles(m) ==
    LET paths(b) == [j \in DOMAIN b.parts |-> b.parts[j].path]
        all == Flatten([i \in DOMAIN m.builds |-> paths(m.builds[i])])
    IN  Dedup(SelectSeq(all, LAMBDA p : p # ""))

\* storage.ts buildFirmwareKey
buildFirmwareKey(project, variant, version, filename) ==
    "firmware/" \o project \o "/" \o variant \o "/" \o version \o "/" \o filename

\* storage.ts storeFirmware: bucket.put overwrites the object at the key
storeFirmware(b, project, variant, version, filename, data, contentType) ==
    LET key == buildFirmwareKey(project, variant, version, filename)
        obj == [data |-> data, contentType |-> contentType]
    IN  [k \in DOMAIN b \cup {key} |-> IF k = key THEN obj ELSE b[k]]

\* processManifest: variant = manifestFilename.replace('_manifest.json', '')
VariantOf(manifestFilename) == ReplaceFirst(manifestFilename, "_manifest.json", "")

\* parseSemverComponents of the version strings of the queue messages, worked
\* out once.
TaskSemver ==
    [version \in {Tasks[t].version : t \in TaskIds} |-> parseSemverComponents(version)]

\* const semver = parseSemverComponents(version)
SemverOf(version) ==
    IF version \in DOMAIN TaskSemver THEN TaskSemver[version]
    ELSE parseSemverComponents(version)

\* A plain INSERT: the unique index rejects the second row of a tuple.
insertRelease_NoConflictClause(rows, projectId, variant, version) ==
    LET semver == SemverOf(version)
    IN  IF semver = Null THEN [threw |-> "Invalid semver", rows |-> rows]
        ELSE IF \E i \in DOMAIN rows : /\ rows[i].project_id = projectId
                                       /\ rows[i].variant = variant
                                       /\ rows[i].version = version
             THEN [threw |-> "UNIQUE constraint failed", rows |-> rows]
             ELSE [threw |-> "",
                   rows |-> Append(rows, [project_id |-> projectId, variant |-> variant,
                                          version |-> version, major |-> semver.major,
                                          minor |-> semver.minor, patch |-> semver.patch])]

\* db.ts insertRelease: raises on an unparseable version, else INSERT ... ON
\* CONFLICT(project_id, variant, version) DO NOTHING. rows is the releases table.
insertRelease(rows, projectId, variant, version) ==
    LET semver == SemverOf(version)
    IN  IF semver = Null THEN [threw |-> "Invalid semver", rows |-> rows]
        ELSE IF \E i \in DOMAIN rows : /\ rows[i].project_id = projectId
                                       /\ rows[i].variant = variant
                                       /\ rows[i].version = version
             THEN [threw |-> "", rows |-> rows]
             ELSE [threw |-> "",
                   rows |-> Append(rows, [project_id |-> projectId, variant |-> variant,
                                          version |-> version, major |-> semver.major,
                                          minor |-> semver.minor, patch |-> semver.patch])]

\* A lookup that finds nothing.
getProcessedAssetIds_Empty(rows, assetIds) == {}

\* db.ts getProcessedAssetIds
getProcessedAssetIds(rows, assetIds) ==
    IF assetIds = {} THEN {}
    ELSE {rows[i].asset_id : i \in {j \in DOMAIN rows : rows[j].asset_id \in assetIds}}

\* The INSERT without its ON CONFLICT clause: a second row for an asset id
\* violates the unique key and the statement fails.
markAssetProcessed_NoConflictClause(rows, assetId, projectId) ==
    IF \E i \in DOMAIN rows : rows[i].asset_id = assetId
    THEN [threw |-> "UNIQUE constraint failed: processed_assets.asset_id", rows |-> rows]
    ELSE [threw |-> "", rows |-> Append(rows, [asset_id |-> assetId, project_id |-> projectId])]

\* db.ts markAssetProcessed: INSERT ... ON CONFLICT(asset_id) DO NOTHING
markAssetProcessed(rows, assetId, projectId) ==
    IF \E i \in DOMAIN rows : rows[i].asset_id = assetId
    THEN [threw |-> "", rows |-> rows]
    ELSE [threw |-> "", rows |-> Append(rows, [asset_id |-> assetId, project_id |-> projectId])]

\* ------------------------------------------------------------------------
\* OTA check: the project list, the upstream releases, the responses
\* ------------------------------------------------------------------------

projects ==
    << [slug |-> "MATRX-fw", supports_variants |-> TRUE,
        repository_slug |-> "koiosdigital/MATRX-fw", name |-> "MATRX Firmware"],
       [slug |-> "LANTERN-fw", supports_variants |-> TRUE,
        repository_slug |-> "koiosdigital/LANTERN-fw", name |-> "LANTERN Firmware"],
       [slug |-> "clock-fw", supports_variants |-> TRUE,
        repository_slug |-> "koiosdigital/CLOCK-fw", name |-> "CLOCK Firmware"],
       [slug |-> "tranquil-fw", supports_variants |-> TRUE,
        repository_slug |-> "koiosdigital/tranquil-fw", name |-> "tranquil Firmware"] >>

Repositories == {projects[i].repository_slug : i \in DOMAIN projects}

\* projects.find((p) => p.slug === project)
FindProject(slug) ==
    LET hits == {i \in DOMAIN projects : projects[i].slug = slug}
    IN  IF hits = {} THEN Null
        ELSE projects[CHOOSE i \in hits : \A j \in hits : i <= j]

DefaultMaxLen == 64

SafeChars == LowerLetters \cup UpperLetters \cup Digits \cup {"_", ".", "-"}

\* /^[A-Za-z0-9_.-]+$/ on a string of 1..maxLen characters
isSafeIdentifier(value, maxLen) ==
    /\ Len(value) # 0
    /\ Len(value) <= maxLen
    /\ \A i \in 1..Len(value) : Ch(value, i) \in SafeChars

NoRelease == [tag_name |-> "", assets |-> <<>>]

NoAsset == [name |-> "", browser_download_url |-> ""]

DownloadUrl(repo, tag, name) ==
    "https://github.com/" \o repo \o "/releases/download/" \o tag \o "/" \o name

Asset(repo, tag, name) ==
    [name |-> name, browser_download_url |-> DownloadUrl(repo, tag, name)]

\* What GitHub may publish as the latest release of a repository.
GitHubReleases(repo) ==
    { [tag_name |-> "v1.2.0",
       assets |-> << Asset(repo, "v1.2.0", "MINI_manifest.json"),
                     Asset(repo, "v1.2.0", "MAX_manifest.json"),
                     Asset(repo, "v1.2.0", "matrx-fw.bin") >>],
      [tag_name |-> "10.0.0",
       assets |-> << Asset(repo, "10.0.0", "MAX_manifest.json") >>],
      [tag_name |-> "v9.0.0",
       assets |-> << Asset(repo, "v9.0.0", "MINI_manifest.json") >>],
      [tag_name |-> "nightly", assets |-> <<>>] }

\* The answers of GET /repos/{repo}/releases/latest.
GitHubLatest(repo) ==
    { [ok |-> FALSE, statusText |-> "Service Unavailable", release |-> NoRelease],
      [ok |-> FALSE, statusText |-> "Unexpected GitHub API response", release |-> NoRelease] }
    \cup { [ok |-> TRUE, statusText |-> "OK", release |-> r] : r \in GitHubReleases(repo) }

\* The manifest document GitHub serves at an asset's download URL.
GitHubManifest(url) ==
    IF EndsWith(url, "/v1.2.0/MINI_manifest.json")
    THEN [builds |-> << [parts |-> << [path |-> "bootloader.bin"],
                                      [path |-> ""],
                                      [path |-> "MATRX_fw.bin"],
                                      [path |-> "matrx-fw-factory.bin"] >>] >>]
    ELSE IF EndsWith(url, "/MAX_manifest.json")
    THEN [builds |-> << [parts |-> << [path |-> "bootloader.bin"],
                                      [path |-> "CLOCK-FW-max.bin"] >>],
                        [parts |-> << [path |-> "matrx_fw.bin"],
                                      [path |-> "https://cdn.example.com/partitions.bin"] >>] >>]
    ELSE [builds |-> <<>>]

jsonError(status, message) ==
    [status |-> status, body |-> [error |-> TRUE, message |-> message]]

UpToDate == [status |-> 200, body |-> [error |-> FALSE, update_available |-> FALSE]]

LookupError(status, message) ==
    [status |-> status,
     body |-> [error |-> TRUE, update_available |-> FALSE, error_message |-> message]]

UpdateAvailable(url) ==
    [status |-> 200, body |-> [error |-> FALSE, update_available |-> TRUE, ota_url |-> url]]

\* No response yet: the handler goes on.
NoResponse == [status |-> 0, body |-> [error |-> FALSE]]

\* What the device may send in x-firmware-project, x-firmware-version and
\* x-firmware-variant; "" is a header that is absent or empty.
ProjectHeaders == {"", "MATRX-fw", "clock-fw", "matrx-fw", "nope-fw", "bad/slug"}

VersionHeaders ==
    {"", "0.0.1", " 0.0.1 ", "1.0.0", "v1.2.0", "1.2.1", "9.0.0", "10.0.0", "1.3", "abc"}

VariantHeaders == {"", "MINI", "MAX", "bad var"}

\* ------------------------------------------------------------------------
\* Webhook: the deliveries, their signatures
\* ------------------------------------------------------------------------

WebhookSecret == "s3cret"

\* The raw request bodies GitHub (or anyone else) may post.
Payloads ==
    {"published-matrx", "edited-matrx", "deleted-matrx", "published-null",
     "not json", "published-norepo", "published-other"}

\* The release a release event carries.
EventRelease(repo) ==
    [tag_name |-> "v1.3.0",
     assets |-> << Asset(repo, "v1.3.0", "MINI_manifest.json"),
                   Asset(repo, "v1.3.0", "MINI_app.bin"),
                   Asset(repo, "v1.3.0", "MINI.elf"),
                   Asset(repo, "v1.3.0", "notes.txt") >>]

\* JSON.parse(payload) as GitHubWebhookPayload; ok is FALSE when it throws. A
\* release that is null or absent is NoRelease, an absent repository "".
WebhookJson(payload) ==
    LET event(action, release, full_name) ==
            [ok |-> TRUE, action |-> action, release |-> release, full_name |-> full_name]
        matrx == "koiosdigital/MATRX-fw"
    IN  CASE payload = "published-matrx" -> event("published", EventRelease(matrx), matrx)
          [] payload = "edited-matrx" -> event("edited", EventRelease(matrx), matrx)
          [] payload = "deleted-matrx" -> event("deleted", EventRelease(matrx), matrx)
          [] payload = "published-null" -> event("published", NoRelease, matrx)
          [] payload = "published-norepo" ->
                event("published", EventRelease("acme/other-fw"), "")
          [] payload = "published-other" ->
                event("published", EventRelease("acme/other-fw"), "acme/other-fw")
          [] OTHER -> [ok |-> FALSE, action |-> "", release |-> NoRelease, full_name |-> ""]

\* HMAC-SHA256 as arrayBufferToHex renders it, on the keys and bodies drawn
\* here: lower-case hex, a different digest for every (key, body) pair. The
\* digests are cut to 8 digits.
HmacSha256Hex(secret, payload) ==
    LET body == CASE payload = "published-matrx" -> "1a"
                  [] payload = "edited-matrx" -> "2b"
                  [] payload = "deleted-matrx" -> "3c"
                  [] payload = "published-null" -> "4d"
                  [] payload = "not json" -> "5e"
                  [] payload = "published-norepo" -> "6f"
                  [] payload = "published-other" -> "7a"
                  [] OTHER -> "00"
    IN  (IF secret = WebhookSecret THEN "c0ffee" ELSE "bad5ec") \o body

\* What may arrive in X-Hub-Signature-256 with a body; "" is an absent header.
SignatureHeaders(payload) ==
    LET good == HmacSha256Hex(WebhookSecret, payload)
    IN  {"", "sha256=", "sha256=" \o good, good, "sha1=" \o good,
         "sha256=" \o ToUpperCase(good),
         "sha256=" \o SubSeq(good, 1, Len(good) - 1),
         "sha256=" \o good \o "0",
         "sha256=" \o HmacSha256Hex("guess", payload)}
        \cup {"sha256=" \o HmacSha256Hex(WebhookSecret, other) : other \in Payloads}

\* What the stores held when a delivery arrived.
NoStores == [bucket |-> <<>>, cache |-> <<>>, releases |-> <<>>, ledger |-> <<>>]

HookIdle ==
    [pc |-> "idle", signature |-> "", payload |-> "", accepted |-> FALSE,
     slug |-> "", repo |-> "", release |-> NoRelease, todo |-> <<>>,
     stored |-> <<>>, errors |-> <<>>, resp |-> NoResponse, seen |-> NoStores]

\* No pure function has been called.
NoCall == [op |-> "none"]

\* The callers of fetchLatestRelease: the OTA check and the project query.
FetchCallers == {"ota", "query"}

\* No fetchLatestRelease call is in flight.
FetchIdle ==
    [pc |-> "idle", repoSlug |-> "", started |-> 0, seen |-> NoRelease, at |-> 0,
     body |-> [ok |-> FALSE, statusText |-> "", parses |-> FALSE, isArray |-> FALSE,
               json |-> NoRelease],
     result |-> [ok |-> FALSE, status |-> 0, statusText |-> "", release |-> NoRelease]]

\* GitHub before the first release of the model is published.
NoDeliveries == [published |-> 1, invalidated |-> 1]

OtaIdle ==
    [pc |-> "idle", project |-> "", version |-> "", variant |-> "",
     release |-> NoRelease, manifestAsset |-> NoAsset, loaded |-> FALSE,
     resp |-> NoResponse]

\* No manifest request is in flight.
ServeIdle ==
    [pc |-> "idle", slug |-> "", variant |-> "", manifestAsset |-> NoAsset,
     fetched |-> [builds |-> <<>>], seen |-> <<>>, resp |-> NoResponse]

\* The projects table before any webhook.
NoProjects == [rows |-> <<>>, sequence |-> 0, now |-> 0]

VARIABLES
    bucket,     \* R2: object key -> [data, contentType]
    releases,   \* D1 releases table: sequence of rows
    ledger,     \* D1 processed_assets table: sequence of rows
    appEnv,     \* TRUE when GITHUB_APP_ID and GITHUB_APP_PRIVATE_KEY are set
    queue,      \* the manifest asset ids of the messages the webhook has enqueued
    wk,         \* per queue consumer: the processManifest invocation it runs
    snap,       \* history: the last finished run, and the bucket it left
    ota,        \* the OTA check request in flight: its headers, locals and response
    cache,      \* KV: repository slug -> the cached latest release, or NoRelease
    hook,       \* the webhook delivery in flight: its headers, locals and response
    serve,      \* the manifest request in flight: its parameters, locals and response
    projectTable, \* D1 projects table: its rows, its AUTOINCREMENT sequence, the time
    calc,       \* a call of one of the pure functions: its arguments and its result
    now,        \* Date.now(), in milliseconds
    cacheKV,    \* KV with its timestamps: repository slug -> CachedRelease entry, or NoRelease
    gh,         \* GitHub: the releases published, the webhook deliveries handled
    fl          \* per caller: the fetchLatestRelease call it has in flight

vars == <<bucket, releases, ledger, appEnv, queue, wk, snap, ota, cache, hook, serve, projectTable, calc, now, cacheKV, gh, fl>>

NoManifest == [builds |-> <<>>]

Idle == [pc |-> "idle", task |-> NoTask, ghToken |-> "", manifest |-> NoManifest,
         files |-> <<>>, stored |-> <<>>, errors |-> <<>>, threw |-> "",
         marked |-> FALSE]

NoSnap == [task |-> NoTask, bucket |-> <<>>]

Init ==
    /\ bucket = <<>>
    /\ releases = <<>>
    /\ ledger = <<>>
    /\ appEnv \in BOOLEAN
    /\ queue \in (SUBSET OrdinaryTaskIds) \ {{}}
    /\ wk = [w \in Workers |-> Idle]
    /\ snap = NoSnap
    /\ ota = OtaIdle
    /\ cache = [r \in Repositories |-> NoRelease]
    /\ hook = HookIdle
    /\ serve = ServeIdle
    /\ projectTable = NoProjects
    /\ calc = NoCall
    /\ now = 0
    /\ cacheKV = [r \in Repositories |-> NoRelease]
    /\ gh = NoDeliveries
    /\ fl = [c \in FetchCallers |-> FetchIdle]

Msg(w) == Tasks[wk[w].task]

Variant(w) == VariantOf(Msg(w).manifestFilename)

Set(w, r) == wk' = [wk EXCEPT ![w] = r]

\* processManifest's catch block: the error is recorded in the local errors
\* array and re-thrown to the queue; the arrays die with the invocation.
Throw(w, msg) == [Idle EXCEPT !.pc = "failed", !.task = wk[w].task, !.threw = msg]

\* The queue hands a message to a consumer (at-least-once: any message, any
\* number of times).
Deliver(w) ==
    /\ wk[w].pc = "idle"
    /\ \E t \in queue : Set(w, [Idle EXCEPT !.pc = "check", !.task = t])
    /\ UNCHANGED <<bucket, releases, ledger, appEnv, queue, snap, ota, cache, hook, serve, projectTable, calc, now, cacheKV, gh, fl>>

\* The gate claiming the asset id in the ledger before the work is done.
CheckLedger_ClaimFirst(w) ==
    /\ wk[w].pc = "check"
    /\ LET processedIds == getProcessedAssetIds(ledger, {Msg(w).manifestAssetId})
       IN  IF Msg(w).manifestAssetId \in processedIds
           THEN /\ Set(w, [wk[w] EXCEPT !.pc = "done", !.stored = <<>>, !.errors = <<>>])
                /\ UNCHANGED ledger
           ELSE /\ Set(w, [wk[w] EXCEPT !.pc = "token"])
                /\ ledger' = markAssetProcessed(ledger, Msg(w).manifestAssetId,
                                                Msg(w).projectId).rows
    /\ UNCHANGED <<bucket, releases, appEnv, queue, snap, ota, cache, hook, serve, projectTable, calc, now, cacheKV, gh, fl>>

\* storage.ts 101-105: the ledger gate
CheckLedger(w) ==
    /\ wk[w].pc = "check"
    /\ LET processedIds == getProcessedAssetIds(ledger, {Msg(w).manifestAssetId})
       IN  IF Msg(w).manifestAssetId \in processedIds
           THEN Set(w, [wk[w] EXCEPT !.pc = "done", !.stored = <<>>, !.errors = <<>>])
           ELSE Set(w, [wk[w] EXCEPT !.pc = "token"])
    /\ UNCHANGED <<bucket, releases, ledger, appEnv, queue, snap, ota, cache, hook, serve, projectTable, calc, now, cacheKV, gh, fl>>

\* A failed exchange answered by going on without a token.
GetToken_Anonymous(w) ==
    /\ wk[w].pc = "token"
    /\ IF appEnv /\ Msg(w).installationId # 0
       THEN \E ok \in BOOLEAN :
              IF ok THEN Set(w, [wk[w] EXCEPT !.pc = "manifest", !.ghToken = "token"])
              ELSE Set(w, [wk[w] EXCEPT !.pc = "manifest"])
       ELSE Set(w, [wk[w] EXCEPT !.pc = "manifest"])
    /\ UNCHANGED <<bucket, releases, ledger, appEnv, queue, snap, ota, cache, hook, serve, projectTable, calc, now, cacheKV, gh, fl>>

\* storage.ts 107-111: getInstallationToken, which raises when the exchange fails
GetToken(w) ==
    /\ wk[w].pc = "token"
    /\ IF appEnv /\ Msg(w).installationId # 0
       THEN \E ok \in BOOLEAN :
              IF ok THEN Set(w, [wk[w] EXCEPT !.pc = "manifest", !.ghToken = "token"])
              ELSE Set(w, Throw(w, "Failed to get installation token"))
       ELSE Set(w, [wk[w] EXCEPT !.pc = "manifest"])
    /\ UNCHANGED <<bucket, releases, ledger, appEnv, queue, snap, ota, cache, hook, serve, projectTable, calc, now, cacheKV, gh, fl>>

\* storage.ts 119-136: fetch, JSON.parse and normalise the manifest
FetchManifest(w) ==
    /\ wk[w].pc = "manifest"
    /\ \E resp \in {"not ok", "malformed", "ok"} :
         CASE resp = "not ok" -> Set(w, Throw(w, "Failed to fetch manifest"))
           [] resp = "malformed" -> Set(w, Throw(w, "SyntaxError"))
           [] resp = "ok" ->
                Set(w, [wk[w] EXCEPT !.pc = "putManifest",
                          !.manifest = NormalizeManifest(UpstreamManifest(Msg(w).manifestAssetId))])
    /\ UNCHANGED <<bucket, releases, ledger, appEnv, queue, snap, ota, cache, hook, serve, projectTable, calc, now, cacheKV, gh, fl>>

\* storage.ts 138-155: store the canonical manifest, collect the referenced files
PutManifest(w) ==
    /\ wk[w].pc = "putManifest"
    /\ \E ok \in BOOLEAN :
         IF ok
         THEN /\ bucket' = storeFirmware(bucket, Msg(w).projectSlug, Variant(w), Msg(w).version,
                                         "manifest.json", [json |-> wk[w].manifest],
                                         "application/json")
              /\ Set(w, [wk[w] EXCEPT !.pc = "files",
                                      !.stored = Append(@, Msg(w).manifestFilename),
                                      !.files = ReferencedFiles(wk[w].manifest)])
         ELSE /\ Set(w, Throw(w, "R2 put failed"))
              /\ UNCHANGED bucket
    /\ UNCHANGED <<releases, ledger, appEnv, queue, snap, ota, cache, hook, serve, projectTable, calc, now, cacheKV, gh, fl>>

\* The loop raising on a referenced file the release lacks.
StoreFile_MissingIsFatal(w) ==
    /\ wk[w].pc = "files"
    /\ wk[w].files # <<>>
    /\ LET filename == Head(wk[w].files)
           rest == [wk[w] EXCEPT !.files = Tail(@)]
       IN  IF filename \notin Msg(w).assets
           THEN /\ Set(w, Throw(w, "Referenced file not found in release: " \o filename))
                /\ UNCHANGED bucket
           ELSE \E resp \in {"not ok", "ok", "put fails"} :
                  CASE resp = "not ok" ->
                         /\ Set(w, [rest EXCEPT !.errors = Append(@, "Failed to fetch " \o filename)])
                         /\ UNCHANGED bucket
                    [] resp = "ok" ->
                         /\ bucket' = storeFirmware(bucket, Msg(w).projectSlug, Variant(w),
                                                    Msg(w).version, filename,
                                                    UpstreamBytes(filename),
                                                    "application/octet-stream")
                         /\ Set(w, [rest EXCEPT !.stored = Append(@, filename)])
                    [] resp = "put fails" ->
                         /\ Set(w, Throw(w, "R2 put failed"))
                         /\ UNCHANGED bucket
    /\ UNCHANGED <<releases, ledger, appEnv, queue, snap, ota, cache, hook, serve, projectTable, calc, now, cacheKV, gh, fl>>

\* storage.ts 157-174: one iteration of the loop over referencedFiles
StoreFile(w) ==
    /\ wk[w].pc = "files"
    /\ wk[w].files # <<>>
    /\ LET filename == Head(wk[w].files)
           rest == [wk[w] EXCEPT !.files = Tail(@)]
       IN  IF filename \notin Msg(w).assets
           THEN /\ Set(w, [rest EXCEPT !.errors =
                              Append(@, "Referenced file not found in release: " \o filename)])
                /\ UNCHANGED bucket
           ELSE \E resp \in {"not ok", "ok", "put fails"} :
                  CASE resp = "not ok" ->
                         /\ Set(w, [rest EXCEPT !.errors = Append(@, "Failed to fetch " \o filename)])
                         /\ UNCHANGED bucket
                    [] resp = "ok" ->
                         /\ bucket' = storeFirmware(bucket, Msg(w).projectSlug, Variant(w),
                                                    Msg(w).version, filename,
                                                    UpstreamBytes(filename),
                                                    "application/octet-stream")
                         /\ Set(w, [rest EXCEPT !.stored = Append(@, filename)])
                    [] resp = "put fails" ->
                         /\ Set(w, Throw(w, "R2 put failed"))
                         /\ UNCHANGED bucket
    /\ UNCHANGED <<releases, ledger, appEnv, queue, snap, ota, cache, hook, serve, projectTable, calc, now, cacheKV, gh, fl>>

\* storage.ts 176-186: the best-effort {variant}.elf
StoreElf(w) ==
    /\ wk[w].pc = "files"
    /\ wk[w].files = <<>>
    /\ LET elfFilename == Variant(w) \o ".elf"
       IN  IF elfFilename \in Msg(w).assets
           THEN \E resp \in {"not ok", "ok", "put fails"} :
                  CASE resp = "not ok" ->
                         /\ Set(w, [wk[w] EXCEPT !.pc = "release"])
                         /\ UNCHANGED bucket
                    [] resp = "ok" ->
                         /\ bucket' = storeFirmware(bucket, Msg(w).projectSlug, Variant(w),
                                                    Msg(w).version, elfFilename,
                                                    UpstreamBytes(elfFilename),
                                                    "application/octet-stream")
                         /\ Set(w, [wk[w] EXCEPT !.pc = "release",
                                                 !.stored = Append(@, elfFilename)])
                    [] resp = "put fails" ->
                         /\ Set(w, Throw(w, "R2 put failed"))
                         /\ UNCHANGED bucket
           ELSE /\ Set(w, [wk[w] EXCEPT !.pc = "release"])
                /\ UNCHANGED bucket
    /\ UNCHANGED <<releases, ledger, appEnv, queue, snap, ota, cache, hook, serve, projectTable, calc, now, cacheKV, gh, fl>>

\* insertRelease inside its own try/catch: the error is recorded and the run goes on.
RecordRelease_Swallow(w) ==
    /\ wk[w].pc = "release"
    /\ \E d1 \in {"ok", "error"} :
         LET r == insertRelease(releases, Msg(w).projectId, Variant(w), Msg(w).version)
         IN  IF r.threw # "" \/ d1 = "error"
             THEN /\ Set(w, [wk[w] EXCEPT !.pc = "mark",
                                          !.errors = Append(@, "Error recording release")])
                  /\ UNCHANGED releases
             ELSE Set(w, [wk[w] EXCEPT !.pc = "mark"]) /\ releases' = r.rows
    /\ UNCHANGED <<bucket, ledger, appEnv, queue, snap, ota, cache, hook, serve, projectTable, calc, now, cacheKV, gh, fl>>

\* storage.ts 188-189: insertRelease; D1 may also fail the statement
RecordRelease(w) ==
    /\ wk[w].pc = "release"
    /\ \E d1 \in {"ok", "error"} :
         LET r == insertRelease(releases, Msg(w).projectId, Variant(w), Msg(w).version)
         IN  IF r.threw # "" THEN Set(w, Throw(w, r.threw)) /\ UNCHANGED releases
             ELSE IF d1 = "error" THEN Set(w, Throw(w, "D1 error")) /\ UNCHANGED releases
             ELSE Set(w, [wk[w] EXCEPT !.pc = "mark"]) /\ releases' = r.rows
    /\ UNCHANGED <<bucket, ledger, appEnv, queue, snap, ota, cache, hook, serve, projectTable, calc, now, cacheKV, gh, fl>>

\* storage.ts 191-192 and 199: markAssetProcessed, then return {stored, errors}
MarkProcessed(w) ==
    /\ wk[w].pc = "mark"
    /\ \E d1 \in {"ok", "error"} :
         LET r == markAssetProcessed(ledger, Msg(w).manifestAssetId, Msg(w).projectId)
         IN  IF r.threw # "" THEN Set(w, Throw(w, r.threw)) /\ UNCHANGED ledger
             ELSE IF d1 = "error" THEN Set(w, Throw(w, "D1 error")) /\ UNCHANGED ledger
             ELSE Set(w, [wk[w] EXCEPT !.pc = "done", !.marked = TRUE]) /\ ledger' = r.rows
    /\ UNCHANGED <<bucket, releases, appEnv, queue, snap, ota, cache, hook, serve, projectTable, calc, now, cacheKV, gh, fl>>

processManifest(w) ==
    \/ CheckLedger(w)
    \/ GetToken(w)
    \/ FetchManifest(w)
    \/ PutManifest(w)
    \/ StoreFile(w)
    \/ StoreElf(w)
    \/ RecordRelease(w)
    \/ MarkProcessed(w)

\* The run returned: the message is acknowledged.
Ack(w) ==
    /\ wk[w].pc = "done"
    /\ Set(w, Idle)
    /\ UNCHANGED <<bucket, releases, ledger, appEnv, queue, snap, ota, cache, hook, serve, projectTable, calc, now, cacheKV, gh, fl>>

\* The run raised: the message goes back to the queue for redelivery.
Retry(w) ==
    /\ wk[w].pc = "failed"
    /\ Set(w, Idle)
    /\ UNCHANGED <<bucket, releases, ledger, appEnv, queue, snap, ota, cache, hook, serve, projectTable, calc, now, cacheKV, gh, fl>>

Next == \E w \in Workers : Deliver(w) \/ processManifest(w) \/ Ack(w) \/ Retry(w)

Spec == Init /\ [][Next]_vars

\* The consumers fed the messages of the release with the unusual asset names.
InitUnusual ==
    /\ bucket = <<>>
    /\ releases = <<>>
    /\ ledger = <<>>
    /\ appEnv \in BOOLEAN
    /\ queue \in (SUBSET UnusualTaskIds) \ {{}}
    /\ wk = [w \in Workers |-> Idle]
    /\ snap = NoSnap
    /\ ota = OtaIdle
    /\ cache = [r \in Repositories |-> NoRelease]
    /\ hook = HookIdle
    /\ serve = ServeIdle
    /\ projectTable = NoProjects
    /\ calc = NoCall
    /\ now = 0
    /\ cacheKV = [r \in Repositories |-> NoRelease]
    /\ gh = NoDeliveries
    /\ fl = [c \in FetchCallers |-> FetchIdle]

SpecUnusual == InitUnusual /\ [][Next]_vars

\* One consumer, so that runs happen one after another. snap records the task of
\* the run that just returned and the bucket it left; a run that raised resets it.
SeqWorkers == {"w1"}

AckSeq(w) ==
    /\ wk[w].pc = "done"
    /\ Set(w, Idle)
    /\ snap' = [task |-> wk[w].task, bucket |-> bucket]
    /\ UNCHANGED <<bucket, releases, ledger, appEnv, queue, ota, cache, hook, serve, projectTable, calc, now, cacheKV, gh, fl>>

RetrySeq(w) ==
    /\ wk[w].pc = "failed"
    /\ Set(w, Idle)
    /\ snap' = NoSnap
    /\ UNCHANGED <<bucket, releases, ledger, appEnv, queue, ota, cache, hook, serve, projectTable, calc, now, cacheKV, gh, fl>>

NextSeq == \E w \in SeqWorkers : Deliver(w) \/ processManifest(w) \/ AckSeq(w) \/ RetrySeq(w)

SpecSeq == Init /\ [][NextSeq]_vars

\* One message in the queue, redelivered for ever, and the environment under
\* fairness: the consumer is handed the message whenever it is idle, a run
\* that can take its next step takes it, a run that has ended is acknowledged
\* or retried, and a step that is retried again and again and can succeed
\* does succeed in the end.
InitLive ==
    /\ bucket = <<>>
    /\ releases = <<>>
    /\ ledger = <<>>
    /\ appEnv \in BOOLEAN
    /\ queue \in {{t} : t \in OrdinaryTaskIds}
    /\ wk = [w \in Workers |-> Idle]
    /\ snap = NoSnap
    /\ ota = OtaIdle
    /\ cache = [r \in Repositories |-> NoRelease]
    /\ hook = HookIdle
    /\ serve = ServeIdle
    /\ projectTable = NoProjects
    /\ calc = NoCall
    /\ now = 0
    /\ cacheKV = [r \in Repositories |-> NoRelease]
    /\ gh = NoDeliveries
    /\ fl = [c \in FetchCallers |-> FetchIdle]

\* The steps of a run that the environment can fail, by the position of the
\* run and the number of referenced files it has left; a step succeeds when
\* the run goes on.
FallibleSteps ==
    {<<"token", 0>>, <<"manifest", 0>>, <<"putManifest", 0>>, <<"files", 0>>,
     <<"files", 1>>, <<"files", 2>>, <<"release", 0>>, <<"mark", 0>>}

StepSucceeds(w, step) ==
    /\ wk[w].pc = step[1]
    /\ Len(wk[w].files) = step[2]
    /\ processManifest(w)
    /\ wk'[w].pc # "failed"

FairSeq ==
    /\ WF_vars(NextSeq)
    /\ \A w \in SeqWorkers, step \in FallibleSteps : SF_vars(StepSucceeds(w, step))

SpecLive == InitLive /\ [][NextSeq]_vars /\ FairSeq

\* ------------------------------------------------------------------------
\* OTA check: GET /
\* ------------------------------------------------------------------------

\* The device-version special case moved behind the project lookup.
OtaPrecheck_LookupFirst(project, currentVersion, projectVariant) ==
    LET projectData == FindProject(project)
    IN  IF project = "" THEN jsonError(400, "Missing x-firmware-project header")
        ELSE IF currentVersion = "" THEN jsonError(400, "Missing x-firmware-version header")
        ELSE IF ~isSafeIdentifier(project, DefaultMaxLen)
             THEN jsonError(400, "Invalid x-firmware-project")
        ELSE IF projectData = Null
             THEN jsonError(404, "Project " \o project \o " not found")
        ELSE IF Trim(currentVersion) = "0.0.1" THEN UpToDate
        ELSE IF projectData.supports_variants /\ projectVariant = ""
             THEN jsonError(400, "Missing x-firmware-variant header")
        ELSE IF projectVariant # "" /\ ~isSafeIdentifier(projectVariant, DefaultMaxLen)
             THEN jsonError(400, "Invalid x-firmware-variant")
        ELSE IF parseSemver(currentVersion) = Null
             THEN jsonError(400, "Invalid x-firmware-version (expected semver)")
        ELSE NoResponse

\* The device version parsed before the project is looked up.
OtaPrecheck_ParseFirst(project, currentVersion, projectVariant) ==
    LET projectData == FindProject(project)
    IN  IF project = "" THEN jsonError(400, "Missing x-firmware-project header")
        ELSE IF currentVersion = "" THEN jsonError(400, "Missing x-firmware-version header")
        ELSE IF ~isSafeIdentifier(project, DefaultMaxLen)
             THEN jsonError(400, "Invalid x-firmware-project")
        ELSE IF Trim(currentVersion) = "0.0.1" THEN UpToDate
        ELSE IF parseSemver(currentVersion) = Null
             THEN jsonError(400, "Invalid x-firmware-version (expected semver)")
        ELSE IF projectData = Null
             THEN jsonError(404, "Project " \o project \o " not found")
        ELSE IF projectData.supports_variants /\ projectVariant = ""
             THEN jsonError(400, "Missing x-firmware-variant header")
        ELSE IF projectVariant # "" /\ ~isSafeIdentifier(projectVariant, DefaultMaxLen)
             THEN jsonError(400, "Invalid x-firmware-variant")
        ELSE NoResponse

\* The handler up to its first await: the response it returns, or NoResponse
\* when it goes on to fetch the latest release.
OtaPrecheck(project, currentVersion, projectVariant) ==
    LET projectData == FindProject(project)
    IN  IF project = "" THEN jsonError(400, "Missing x-firmware-project header")
        ELSE IF currentVersion = "" THEN jsonError(400, "Missing x-firmware-version header")
        ELSE IF ~isSafeIdentifier(project, DefaultMaxLen)
             THEN jsonError(400, "Invalid x-firmware-project")
        ELSE IF Trim(currentVersion) = "0.0.1" THEN UpToDate
        ELSE IF projectData = Null
             THEN jsonError(404, "Project " \o project \o " not found")
        ELSE IF projectData.supports_variants /\ projectVariant = ""
             THEN jsonError(400, "Missing x-firmware-variant header")
        ELSE IF projectVariant # "" /\ ~isSafeIdentifier(projectVariant, DefaultMaxLen)
             THEN jsonError(400, "Invalid x-firmware-variant")
        ELSE IF parseSemver(currentVersion) = Null
             THEN jsonError(400, "Invalid x-firmware-version (expected semver)")
        ELSE NoResponse

\* cache.ts getCachedRelease: the cached release, or Null. An entry older than
\* the TTL is one CacheExpire has removed.
getCachedRelease(kv, repoSlug) ==
    IF kv[repoSlug] = NoRelease THEN Null ELSE kv[repoSlug]

setCachedRelease(kv, repoSlug, release) == [kv EXCEPT ![repoSlug] = release]

ManifestName(projectData, projectVariant) ==
    IF projectData.supports_variants
    THEN projectVariant \o "_manifest.json"
    ELSE "default_manifest.json"

\* release.assets.find((a) => a.name === manifestName)
FindAsset(assets, name) ==
    LET hits == {i \in DOMAIN assets : assets[i].name = name}
    IN  IF hits = {} THEN NoAsset
        ELSE assets[CHOOSE i \in hits : \A j \in hits : i <= j]

\* The handler between the latest release and the manifest fetch: the
\* response it returns, or NoResponse and the manifest asset to fetch.
OtaCompare(projectData, currentVersion, projectVariant, release) ==
    LET current == parseSemver(currentVersion)
        latest == parseSemver(release.tag_name)
        manifestName == ManifestName(projectData, projectVariant)
        manifestAsset == FindAsset(release.assets, manifestName)
    IN  IF latest = Null
        THEN [resp |-> jsonError(502, "Invalid tag_name from GitHub"),
              manifestAsset |-> NoAsset]
        ELSE IF ~(compareSemver(current, latest) < 0)
        THEN [resp |-> UpToDate, manifestAsset |-> NoAsset]
        ELSE IF manifestAsset = NoAsset
        THEN [resp |-> LookupError(502, "No manifest found for " \o manifestName
                                         \o " in release " \o release.tag_name),
              manifestAsset |-> NoAsset]
        ELSE [resp |-> NoResponse, manifestAsset |-> manifestAsset]

NormalizeForMatch(s) == HyphensToUnderscores(ToLowerCase(s))

\* The search keeping the last part that matches.
FindAppPart_LastMatch(slug, parts) ==
    LET hits == {i \in DOMAIN parts :
                    /\ parts[i].path # ""
                    /\ Includes(NormalizeForMatch(parts[i].path), NormalizeForMatch(slug))}
    IN  IF hits = {} THEN [path |-> ""]
        ELSE parts[CHOOSE i \in hits : \A j \in hits : i >= j]

\* build.parts.find(...): the first part whose normalized path contains the
\* normalized slug, or a part without a path.
FindAppPart(slug, parts) ==
    LET hits == {i \in DOMAIN parts :
                    /\ parts[i].path # ""
                    /\ Includes(NormalizeForMatch(parts[i].path), NormalizeForMatch(slug))}
    IN  IF hits = {} THEN [path |-> ""]
        ELSE parts[CHOOSE i \in hits : \A j \in hits : i <= j]

\* appBinaryUrl, "" for null
AppBinaryUrl(slug, manifestAsset, manifest) ==
    LET baseUrl == ReplaceFirst(manifestAsset.browser_download_url, manifestAsset.name, "")
    IN  IF Len(manifest.builds) > 0
        THEN LET appPart == FindAppPart(slug, manifest.builds[1].parts)
             IN  IF appPart.path # "" THEN baseUrl \o appPart.path ELSE ""
        ELSE ""

\* A manifest without an application part answered as "no update".
ManifestResponse_SilentFalse(slug, manifestName, manifestAsset, manifest) ==
    LET appBinaryUrl == AppBinaryUrl(slug, manifestAsset, manifest)
    IN  IF appBinaryUrl = "" THEN UpToDate ELSE UpdateAvailable(appBinaryUrl)

ManifestResponse(slug, manifestName, manifestAsset, manifest) ==
    LET appBinaryUrl == AppBinaryUrl(slug, manifestAsset, manifest)
    IN  IF appBinaryUrl = ""
        THEN LookupError(502, "No app binary found in manifest for " \o manifestName)
        ELSE UpdateAvailable(appBinaryUrl)

Respond(r) == ota' = [ota EXCEPT !.pc = "responded", !.resp = r]

\* A request arrives and runs to the first await.
OtaCheck ==
    /\ ota.pc = "idle"
    /\ \E project \in ProjectHeaders, currentVersion \in VersionHeaders,
          projectVariant \in VariantHeaders :
         LET r == OtaPrecheck(project, currentVersion, projectVariant)
         IN  ota' = [OtaIdle EXCEPT
                       !.pc = IF r = NoResponse THEN "fetchLatest" ELSE "responded",
                       !.project = project, !.version = currentVersion,
                       !.variant = projectVariant, !.resp = r]
    /\ UNCHANGED <<bucket, releases, ledger, appEnv, queue, wk, snap, cache, hook, serve, projectTable, calc, now, cacheKV, gh, fl>>

\* fetchLatestRelease, then the comparison and the manifest asset lookup.
OtaFetchLatest ==
    /\ ota.pc = "fetchLatest"
    /\ LET projectData == FindProject(ota.project)
           repo == projectData.repository_slug
           cached == getCachedRelease(cache, repo)
           go(release) ==
               LET d == OtaCompare(projectData, ota.version, ota.variant, release)
               IN  ota' = [ota EXCEPT
                             !.pc = IF d.resp = NoResponse THEN "fetchManifest"
                                    ELSE "responded",
                             !.release = release, !.manifestAsset = d.manifestAsset,
                             !.resp = d.resp]
       IN  IF cached # Null
           THEN go(cached) /\ UNCHANGED cache
           ELSE \E res \in GitHubLatest(repo) :
                  IF ~res.ok
                  THEN /\ Respond(jsonError(502, "Error fetching data from GitHub: "
                                                 \o res.statusText))
                       /\ UNCHANGED cache
                  ELSE /\ cache' = setCachedRelease(cache, repo, res.release)
                       /\ go(res.release)
    /\ UNCHANGED <<bucket, releases, ledger, appEnv, queue, wk, snap, hook, serve, projectTable, calc, now, cacheKV, gh, fl>>

\* The manifest fetch and the search for the application part.
OtaFetchManifest ==
    /\ ota.pc = "fetchManifest"
    /\ LET projectData == FindProject(ota.project)
           manifestName == ManifestName(projectData, ota.variant)
       IN  \E res \in {"not ok", "malformed", "ok"} :
             CASE res = "not ok" ->
                    Respond(LookupError(502, "Failed to fetch manifest: Not Found"))
               [] res = "malformed" ->
                    Respond(LookupError(500, "Error processing manifest"))
               [] res = "ok" ->
                    ota' = [ota EXCEPT
                              !.pc = "responded", !.loaded = TRUE,
                              !.resp = ManifestResponse(projectData.slug, manifestName,
                                          ota.manifestAsset,
                                          GitHubManifest(ota.manifestAsset.browser_download_url))]
    /\ UNCHANGED <<bucket, releases, ledger, appEnv, queue, wk, snap, cache, hook, serve, projectTable, calc, now, cacheKV, gh, fl>>

\* The response is sent; the handler is ready for the next request.
OtaDone ==
    /\ ota.pc = "responded"
    /\ ota' = OtaIdle
    /\ UNCHANGED <<bucket, releases, ledger, appEnv, queue, wk, snap, cache, hook, serve, projectTable, calc, now, cacheKV, gh, fl>>

\* A cache entry reaches its TTL.
CacheExpire ==
    /\ \E repo \in Repositories :
         /\ cache[repo] # NoRelease
         /\ cache' = [cache EXCEPT ![repo] = NoRelease]
    /\ UNCHANGED <<bucket, releases, ledger, appEnv, queue, wk, snap, ota, hook, serve, projectTable, calc, now, cacheKV, gh, fl>>

InitOTA ==
    /\ bucket = <<>>
    /\ releases = <<>>
    /\ ledger = <<>>
    /\ appEnv = FALSE
    /\ queue = {}
    /\ wk = [w \in Workers |-> Idle]
    /\ snap = NoSnap
    /\ ota = OtaIdle
    /\ cache = [r \in Repositories |-> NoRelease]
    /\ hook = HookIdle
    /\ serve = ServeIdle
    /\ projectTable = NoProjects
    /\ calc = NoCall
    /\ now = 0
    /\ cacheKV = [r \in Repositories |-> NoRelease]
    /\ gh = NoDeliveries
    /\ fl = [c \in FetchCallers |-> FetchIdle]

NextOTA == OtaCheck \/ OtaFetchLatest \/ OtaFetchManifest \/ OtaDone \/ CacheExpire

SpecOTA == InitOTA /\ [][NextOTA]_vars

\* ------------------------------------------------------------------------
\* Version parsing and comparison, called on drawn arguments
\* ------------------------------------------------------------------------

sysVars ==
    <<bucket, releases, ledger, appEnv, queue, wk, snap, ota, cache, hook, serve, projectTable, now, cacheKV, gh, fl>>

\* A version string is a prefix, one to three dot-separated components and a
\* suffix; the components are what the writer of the string meant them to be.
VersionPrefixes == {"", "v", "V"}

VersionComponents == {"", "0", "1", "2", "02", "3", "10", "abc", "-1"}

VersionSuffixes == {"", "-beta+7", "+build"}

MaxParts == 3

RECURSIVE JoinDots(_)
JoinDots(components) ==
    IF Len(components) = 1 THEN components[1]
    ELSE components[1] \o "." \o JoinDots(Tail(components))

\* parseSemver and parseSemverComponents applied to the same string.
ParseVersion ==
    /\ calc = NoCall
    /\ \E prefix \in VersionPrefixes, suffix \in VersionSuffixes, n \in 1..MaxParts :
         \E components \in [1..n -> VersionComponents] :
           LET input == prefix \o JoinDots(components) \o suffix
           IN  calc' = [op |-> "parseSemver", prefix |-> prefix,
                        components |-> components, suffix |-> suffix, input |-> input,
                        result |-> parseSemver(input),
                        dbResult |-> parseSemverComponents(input)]
    /\ UNCHANGED sysVars

VersionNumbers == {0, 1, 2, 9, 10}

Triples == [major : VersionNumbers, minor : VersionNumbers, patch : VersionNumbers]

\* compareSemver applied both ways round, and to a triple and itself.
CompareVersions ==
    /\ calc = NoCall
    /\ \E a \in Triples, b \in Triples :
         calc' = [op |-> "compareSemver", a |-> a, b |-> b,
                  ab |-> compareSemver(a, b), ba |-> compareSemver(b, a),
                  aa |-> compareSemver(a, a)]
    /\ UNCHANGED sysVars

\* The projects table (schema.sql): id and slug.
ProjectRows == {[id |-> 1, slug |-> "widget-fw"], [id |-> 2, slug |-> "lamp-fw"]}

\* The (project id, variant, version) tuples insertRelease may have been called with.
ReleaseInserts ==
    { <<1, "WIDGET", "9.0.0">>, <<1, "WIDGET", "10.0.0">>, <<1, "WIDGET", "1.2">>,
      <<1, "WIDGET", "v1.2.0">>, <<1, "WIDGET", "1.10.0">>, <<1, "MINI", "11.0.0">>,
      <<2, "WIDGET", "12.0.0">>, <<2, "LAMP", "0.3.0">> }

\* The releases table after insertRelease was called with each of the tuples.
RECURSIVE InsertAll(_, _)
InsertAll(rows, inserts) ==
    IF inserts = {} THEN rows
    ELSE LET t == CHOOSE x \in inserts : TRUE
         IN  InsertAll(insertRelease(rows, t[1], t[2], t[3]).rows, inserts \ {t})

\* ORDER BY major DESC, minor DESC, patch DESC: r1 sorts strictly before r2.
SortsBefore(r1, r2) ==
    \/ r1.major > r2.major
    \/ r1.major = r2.major /\ r1.minor > r2.minor
    \/ r1.major = r2.major /\ r1.minor = r2.minor /\ r1.patch > r2.patch

\* ORDER BY major DESC alone.
getLatestVersion_MajorOnly(projectRows, rows, projectSlug, variant) ==
    LET joined == {i \in DOMAIN rows :
                      /\ \E p \in projectRows : p.id = rows[i].project_id /\ p.slug = projectSlug
                      /\ rows[i].variant = variant}
        first == {i \in joined : \A j \in joined : ~(rows[j].major > rows[i].major)}
    IN  IF joined = {} THEN {Null} ELSE {[version |-> rows[i].version] : i \in first}

\* db.ts getLatestVersion: the rows LIMIT 1 may return, as {version} records,
\* or Null when the join is empty. Rows that tie in the ordering may come in
\* either order.
getLatestVersion(projectRows, rows, projectSlug, variant) ==
    LET joined == {i \in DOMAIN rows :
                      /\ \E p \in projectRows : p.id = rows[i].project_id /\ p.slug = projectSlug
                      /\ rows[i].variant = variant}
        first == {i \in joined : \A j \in joined : ~SortsBefore(rows[j], rows[i])}
    IN  IF joined = {} THEN {Null} ELSE {[version |-> rows[i].version] : i \in first}

\* getLatestVersion called on a releases table.
GetLatestVersion ==
    /\ calc = NoCall
    /\ \E inserts \in SUBSET ReleaseInserts,
          projectSlug \in {"widget-fw", "lamp-fw", "nope-fw"},
          variant \in {"WIDGET", "MINI"} :
         LET rows == InsertAll(<<>>, inserts)
         IN  \E result \in getLatestVersion(ProjectRows, rows, projectSlug, variant) :
               calc' = [op |-> "getLatestVersion", rows |-> rows,
                        projectSlug |-> projectSlug, variant |-> variant,
                        result |-> result]
    /\ UNCHANGED sysVars

NextSemver == ParseVersion \/ CompareVersions \/ GetLatestVersion

SpecSemver == InitOTA /\ [][NextSemver]_vars

\* ------------------------------------------------------------------------
\* Webhook: POST /webhook/github
\* ------------------------------------------------------------------------

\* crypto.ts timingSafeEqual
timingSafeEqual(a, b) ==
    /\ Len(a) = Len(b)
    /\ \A i \in 1..Len(a) : Ch(a, i) = Ch(b, i)

\* Any header with the right prefix passes.
verifyGitHubSignature_PrefixOnly(payload, signature, secret) ==
    StartsWith(signature, "sha256=")

\* crypto.ts verifyGitHubSignature
verifyGitHubSignature(payload, signature, secret) ==
    /\ StartsWith(signature, "sha256=")
    /\ timingSafeEqual(HmacSha256Hex(secret, payload), SubSeq(signature, 8, Len(signature)))

Message(status, message) == [status |-> status, body |-> [message |-> message]]

\* projects.find((p) => p.repository_slug === repoFullName)
FindProjectByRepository(repoFullName) ==
    LET hits == {i \in DOMAIN projects : projects[i].repository_slug = repoFullName}
    IN  IF hits = {} THEN Null
        ELSE projects[CHOOSE i \in hits : \A j \in hits : i <= j]

\* The handler up to the cache invalidation: the response it returns, or
\* NoResponse when it goes on; accepted says that the event passed the action
\* filter.
WebhookPrecheck(signature, payload) ==
    LET json == WebhookJson(payload)
        answer(resp, accepted) == [resp |-> resp, accepted |-> accepted]
    IN  IF signature = "" THEN answer(jsonError(401, "Missing signature"), FALSE)
        ELSE IF ~verifyGitHubSignature(payload, signature, WebhookSecret)
             THEN answer(jsonError(401, "Invalid signature"), FALSE)
        ELSE IF ~json.ok THEN answer(jsonError(400, "Invalid JSON payload"), FALSE)
        ELSE IF json.action # "published" \/ json.release = NoRelease
             THEN answer(Message(200, "Event ignored"), FALSE)
        ELSE IF json.full_name = ""
             THEN answer(jsonError(400, "Missing repository name"), TRUE)
        ELSE IF FindProjectByRepository(json.full_name) = Null
             THEN answer(Message(200, "Repository not configured"), TRUE)
        ELSE answer(NoResponse, TRUE)

\* cache.ts invalidateCache
invalidateCache(kv, repoSlug) == [kv EXCEPT ![repoSlug] = NoRelease]

\* storage.ts isFirmwareAsset
isFirmwareAsset(filename) ==
    \E ext \in {".bin", ".elf", "_manifest.json"} : EndsWith(filename, ext)

\* storage.ts parseVariantFromAsset, "" for null: /^(.+?)(?:[-_]app)?\.bin$/i
parseVariantFromAsset(filename) ==
    IF EndsWith(filename, "_manifest.json")
    THEN ReplaceFirst(filename, "_manifest.json", "")
    ELSE IF Len(filename) > 4 /\ EndsWith(ToLowerCase(filename), ".bin")
    THEN LET stem == SubSeq(filename, 1, Len(filename) - 4)
             low == ToLowerCase(stem)
         IN  IF Len(stem) > 4 /\ (EndsWith(low, "-app") \/ EndsWith(low, "_app"))
             THEN SubSeq(stem, 1, Len(stem) - 4)
             ELSE stem
    ELSE ""

\* A delivery arrives and runs up to the cache invalidation.
WebhookReceive ==
    /\ hook.pc = "idle"
    /\ \E payload \in Payloads :
         \E signature \in SignatureHeaders(payload) :
           LET d == WebhookPrecheck(signature, payload)
               json == WebhookJson(payload)
               project == FindProjectByRepository(json.full_name)
           IN  hook' = [HookIdle EXCEPT
                          !.pc = IF d.resp = NoResponse THEN "invalidate" ELSE "responded",
                          !.signature = signature, !.payload = payload,
                          !.accepted = d.accepted, !.resp = d.resp,
                          !.slug = IF d.resp = NoResponse THEN project.slug ELSE "",
                          !.repo = IF d.resp = NoResponse THEN project.repository_slug ELSE "",
                          !.release = IF d.resp = NoResponse THEN json.release ELSE NoRelease,
                          !.seen = [bucket |-> bucket, cache |-> cache,
                                    releases |-> releases, ledger |-> ledger]]
    /\ UNCHANGED <<bucket, releases, ledger, appEnv, queue, wk, snap, ota, cache, serve, projectTable, calc, now, cacheKV, gh, fl>>

\* invalidateCache(c.env.CACHE, project.repository_slug)
WebhookInvalidate ==
    /\ hook.pc = "invalidate"
    /\ cache' = invalidateCache(cache, hook.repo)
    /\ hook' = [hook EXCEPT !.pc = "sync", !.todo = hook.release.assets]
    /\ UNCHANGED <<bucket, releases, ledger, appEnv, queue, wk, snap, ota, serve, projectTable, calc, now, cacheKV, gh, fl>>

\* syncReleaseToR2: one turn of the loop over release.assets.
WebhookSyncAsset ==
    /\ hook.pc = "sync"
    /\ hook.todo # <<>>
    /\ LET asset == Head(hook.todo)
           tag == hook.release.tag_name
           version == IF StartsWith(ToLowerCase(tag), "v") THEN Tail(tag) ELSE tag
           variant == parseVariantFromAsset(asset.name)
           next(stored, errors) ==
               hook' = [hook EXCEPT !.todo = Tail(hook.todo),
                                    !.stored = hook.stored \o stored,
                                    !.errors = hook.errors \o errors]
       IN  IF ~isFirmwareAsset(asset.name) \/ variant = ""
           THEN next(<<>>, <<>>) /\ UNCHANGED bucket
           ELSE \E res \in {"not ok", "ok", "put fails"} :
                  CASE res = "not ok" ->
                         /\ next(<<>>, <<"Failed to fetch " \o asset.name>>)
                         /\ UNCHANGED bucket
                    [] res = "put fails" ->
                         /\ next(<<>>, <<"Error storing " \o asset.name>>)
                         /\ UNCHANGED bucket
                    [] res = "ok" ->
                         /\ bucket' = storeFirmware(bucket, hook.slug, variant, version,
                                          asset.name, UpstreamBytes(asset.name),
                                          "application/octet-stream")
                         /\ next(<<asset.name>>, <<>>)
    /\ UNCHANGED <<releases, ledger, appEnv, queue, wk, snap, ota, cache, serve, projectTable, calc, now, cacheKV, gh, fl>>

\* The sync is over: the summary is returned.
WebhookRespond ==
    /\ hook.pc = "sync"
    /\ hook.todo = <<>>
    /\ hook' = [hook EXCEPT !.pc = "responded", !.resp = Message(200, "Release processed")]
    /\ UNCHANGED <<bucket, releases, ledger, appEnv, queue, wk, snap, ota, cache, serve, projectTable, calc, now, cacheKV, gh, fl>>

\* The response is sent; the handler is ready for the next delivery.
WebhookDone ==
    /\ hook.pc = "responded"
    /\ hook' = HookIdle
    /\ UNCHANGED <<bucket, releases, ledger, appEnv, queue, wk, snap, ota, cache, serve, projectTable, calc, now, cacheKV, gh, fl>>

\* Before a delivery the cache may hold the latest release of a repository,
\* as an OTA check leaves it.
InitWebhook ==
    /\ bucket = <<>>
    /\ releases = <<>>
    /\ ledger = <<>>
    /\ appEnv = FALSE
    /\ queue = {}
    /\ wk = [w \in Workers |-> Idle]
    /\ snap = NoSnap
    /\ ota = OtaIdle
    /\ \E r \in {NoRelease} \cup GitHubReleases("koiosdigital/MATRX-fw") :
         cache = [[repo \in Repositories |-> NoRelease]
                     EXCEPT !["koiosdigital/MATRX-fw"] = r]
    /\ hook = HookIdle
    /\ serve = ServeIdle
    /\ projectTable = NoProjects
    /\ calc = NoCall
    /\ now = 0
    /\ cacheKV = [r \in Repositories |-> NoRelease]
    /\ gh = NoDeliveries
    /\ fl = [c \in FetchCallers |-> FetchIdle]

NextWebhook ==
    WebhookReceive \/ WebhookInvalidate \/ WebhookSyncAsset \/ WebhookRespond \/ WebhookDone

SpecWebhook == InitWebhook /\ [][NextWebhook]_vars

\* ------------------------------------------------------------------------
\* Coredump decoder (db.ts 224-490): words, base64, hexadecimal rendering
\* ------------------------------------------------------------------------

\* A 32-bit unsigned value, as DataView.getUint32 returns it, is kept as the
\* pair <<high 16 bits, low 16 bits>>: the values of interest (0x800d5678,
\* 0xfffffff4) do not fit the checker's integers.
Word(hi, lo) == <<hi, lo>>

Zero == Word(0, 0)

\* The JavaScript number of a word, for the offsets and sizes the decoder adds
\* and compares.
Num(w) == w[1] * 65536 + w[2]

WordLess(a, b) == a[1] < b[1] \/ (a[1] = b[1] /\ a[2] < b[2])

WordAtLeast(a, b) == ~WordLess(a, b)

\* (x + 3) & ~3 of a uint32 x: the sum is reduced to 32 bits, its two low bits
\* are cleared and the result is a signed 32-bit integer.
Align4(w) ==
    LET lowSum == w[2] + 3
        lo     == lowSum % 65536
        hi     == (w[1] + (lowSum \div 65536)) % 65536
        low    == lo - (lo % 4)
    IN  IF hi >= 32768 THEN (hi - 65536) * 65536 + low ELSE hi * 65536 + low

Base64Alphabet == "ABCDEFGHIJKLMNOPQRSTUVWXYZabcdefghijklmnopqrstuvwxyz0123456789+/"

SextetOf == [c \in {Ch(Base64Alphabet, i) : i \in 1..Len(Base64Alphabet)} |->
                (CHOOSE i \in 1..Len(Base64Alphabet) : Ch(Base64Alphabet, i) = c) - 1]

AsciiWhitespace == {" ", "\t", "\n", "\r", "\f"}

\* The strings of a device are hundreds of characters long: the string
\* functions below work on halves, so that their depth stays small.
RECURSIVE StripWhitespace(_)
StripWhitespace(s) ==
    IF Len(s) = 0 THEN ""
    ELSE IF Len(s) = 1 THEN (IF s \in AsciiWhitespace THEN "" ELSE s)
    ELSE LET k == Len(s) \div 2
         IN  StripWhitespace(SubSeq(s, 1, k)) \o StripWhitespace(SubSeq(s, k + 1, Len(s)))

\* The bytes of full groups of four sextets, then of a final group of two or
\* three.
RECURSIVE DecodeSextets(_)
DecodeSextets(s) ==
    LET v(i) == SextetOf[Ch(s, i)]
        k    == 4 * (((Len(s) + 3) \div 4) \div 2)
    IN  IF Len(s) = 0 THEN <<>>
        ELSE IF Len(s) = 2 THEN <<(v(1) * 64 + v(2)) \div 16>>
        ELSE IF Len(s) = 3 THEN
            LET n == (v(1) * 64 + v(2)) * 64 + v(3)
            IN  <<n \div 1024, (n \div 4) % 256>>
        ELSE IF Len(s) = 4 THEN
            LET n == ((v(1) * 64 + v(2)) * 64 + v(3)) * 64 + v(4)
            IN  <<n \div 65536, (n \div 256) % 256, n % 256>>
        ELSE DecodeSextets(SubSeq(s, 1, k)) \o DecodeSextets(SubSeq(s, k + 1, Len(s)))

InvalidCharacterError == "Invalid character"

\* atob: the forgiving base64 decoding.  The result is [ok, bytes]; ok is
\* FALSE where atob throws a DOMException.
atob(input) ==
    LET stripped == StripWhitespace(input)
        n        == Len(stripped)
        unpadded == IF n > 0 /\ n % 4 = 0 /\ EndsWith(stripped, "==")
                        THEN SubSeq(stripped, 1, n - 2)
                    ELSE IF n > 0 /\ n % 4 = 0 /\ EndsWith(stripped, "=")
                        THEN SubSeq(stripped, 1, n - 1)
                    ELSE stripped
    IN  IF Len(unpadded) % 4 = 1
           \/ \E i \in 1..Len(unpadded) : Ch(unpadded, i) \notin DOMAIN SextetOf
        THEN [ok |-> FALSE, bytes |-> <<>>]
        ELSE [ok |-> TRUE, bytes |-> DecodeSextets(unpadded)]

\* btoa, by which a device encodes the dump it uploads.
RECURSIVE btoa(_)
btoa(bytes) ==
    LET n  == Len(bytes)
        b2 == IF n >= 2 THEN bytes[2] ELSE 0
        b3 == IF n >= 3 THEN bytes[3] ELSE 0
        g  == (bytes[1] * 256 + b2) * 256 + b3
        c(d) == Ch(Base64Alphabet, ((g \div d) % 64) + 1)
        k  == 3 * (((n + 2) \div 3) \div 2)
    IN  IF n = 0 THEN ""
        ELSE IF n <= 3 THEN
            c(262144) \o c(4096)
            \o (IF n >= 2 THEN c(64) ELSE "=")
            \o (IF n >= 3 THEN c(1) ELSE "=")
        ELSE btoa(SubSeq(bytes, 1, k)) \o btoa(SubSeq(bytes, k + 1, n))

HexDigits == "0123456789abcdef"

\* Number.prototype.toString(16) of a non-negative integer below 65536.
RECURSIVE ToHex(_)
ToHex(n) ==
    IF n < 16 THEN Ch(HexDigits, n + 1)
    ELSE ToHex(n \div 16) \o Ch(HexDigits, (n % 16) + 1)

RECURSIVE padStart(_, _, _)
padStart(s, targetLength, fill) ==
    IF Len(s) >= targetLength THEN s ELSE padStart(fill \o s, targetLength, fill)

\* value.toString(16) of a word: the digits of the high half, when it is not
\* zero, are followed by all four digits of the low half.
WordToString16(w) ==
    IF w[1] = 0 THEN ToHex(w[2]) ELSE ToHex(w[1]) \o padStart(ToHex(w[2]), 4, "0")

FormatAddress_Unpadded(w) == "0x" \o WordToString16(w)

\* `0x${value.toString(16).padStart(8, '0')}`
FormatAddress(w) == "0x" \o padStart(WordToString16(w), 8, "0")

\* String(code) of a word, the decimal digits of its value.
RECURSIVE DecimalDigits(_, _)
DecimalDigits(hi, lo) ==
    \* long division of hi * 65536 + lo by ten
    LET q1 == hi \div 10
        r1 == hi % 10
        q2 == (r1 * 65536 + lo) \div 10
        r2 == (r1 * 65536 + lo) % 10
        qhi == q1 + (q2 \div 65536)
        qlo == q2 % 65536
    IN  IF hi = 0 /\ lo < 10 THEN Ch(HexDigits, lo + 1)
        ELSE DecimalDigits(qhi, qlo) \o Ch(HexDigits, r2 + 1)

WordToString(w) == DecimalDigits(w[1], w[2])

EXCEPTION_CAUSES ==
    [c \in {0, 1, 2, 3, 4, 5, 6, 8, 9, 12, 13, 14, 15, 16, 17, 18, 20, 24, 25, 26, 28, 29} |->
        CASE c = 0  -> "IllegalInstructionCause"
          [] c = 1  -> "SyscallCause"
          [] c = 2  -> "InstructionFetchErrorCause"
          [] c = 3  -> "LoadStoreErrorCause"
          [] c = 4  -> "Level1InterruptCause"
          [] c = 5  -> "AllocaCause"
          [] c = 6  -> "IntegerDivideByZeroCause"
          [] c = 8  -> "PrivilegedCause"
          [] c = 9  -> "LoadStoreAlignmentCause"
          [] c = 12 -> "InstrPIFDataErrorCause"
          [] c = 13 -> "LoadStorePIFDataErrorCause"
          [] c = 14 -> "InstrPIFAddrErrorCause"
          [] c = 15 -> "LoadStorePIFAddrErrorCause"
          [] c = 16 -> "InstTLBMissCause"
          [] c = 17 -> "InstTLBMultiHitCause"
          [] c = 18 -> "InstFetchPrivilegeCause"
          [] c = 20 -> "InstFetchProhibitedCause"
          [] c = 24 -> "LoadStoreTLBMissCause"
          [] c = 25 -> "LoadStoreTLBMultiHitCause"
          [] c = 26 -> "LoadStorePrivilegeCause"
          [] c = 28 -> "LoadProhibitedCause"
          [] c = 29 -> "StoreProhibitedCause"]

\* EXCEPTION_CAUSES[code] ?? `Unknown (${code})`
ExceptionCauseName(code) ==
    IF code[1] = 0 /\ code[2] \in DOMAIN EXCEPTION_CAUSES
    THEN EXCEPTION_CAUSES[code[2]]
    ELSE "Unknown (" \o WordToString(code) \o ")"

REGISTER_NAMES ==
    << "PC", "PS", "A0", "A1", "A2", "A3", "A4", "A5",
       "A6", "A7", "A8", "A9", "A10", "A11", "A12", "A13",
       "A14", "A15", "SAR", "EXCCAUSE", "EXCVADDR", "LBEG",
       "LEND", "LCOUNT", "THREADPTR", "SCOMPARE1", "BR",
       "ACCLO", "ACCHI", "M0", "M1", "M2", "M3" >>

\* ------------------------------------------------------------------------
\* Coredump decoder: the ELF reader
\* ------------------------------------------------------------------------
Least(a, b) == IF a <= b THEN a ELSE b

RangeErrorMessage == "Offset is outside the bounds of the DataView"

\* A DataView read of `size` bytes at byteOffset succeeds inside the buffer
\* and throws a RangeError outside it.
InBounds(data, byteOffset, size) == byteOffset >= 0 /\ byteOffset + size <= Len(data)

getUint16(data, byteOffset, littleEndian) ==
    IF littleEndian
    THEN data[byteOffset + 2] * 256 + data[byteOffset + 1]
    ELSE data[byteOffset + 1] * 256 + data[byteOffset + 2]

getUint32(data, byteOffset, littleEndian) ==
    IF littleEndian
    THEN Word(getUint16(data, byteOffset + 2, littleEndian), getUint16(data, byteOffset, littleEndian))
    ELSE Word(getUint16(data, byteOffset, littleEndian), getUint16(data, byteOffset + 2, littleEndian))

\* How a call of the reader ends: it returns the parsed dump, it throws, or
\* it never ends.  headersRead counts the program header entries read.
Returned(parsed) == [kind |-> "return", parsed |-> parsed, message |-> "", headersRead |-> 0]

Raised(message) == [kind |-> "throw", parsed |-> <<>>, message |-> message, headersRead |-> 0]

Unending == [kind |-> "loop", parsed |-> <<>>, message |-> "", headersRead |-> 0]

\* ParsedCoredump; an optional number is a sequence of at most one word.
EmptyParsed ==
    [registers |-> <<>>, pc |-> <<>>, exceptionCause |-> <<>>, backtraceAddresses |-> <<>>]

Has(registers, name) == name \in DOMAIN registers

\* registers[name] as a condition: present and not zero.
Truthy(registers, name) == Has(registers, name) /\ registers[name] # Zero

isValidCodeAddress(addr) ==
    \/ (WordAtLeast(addr, Word(16384, 0)) /\ WordLess(addr, Word(16448, 0)))
    \/ (WordAtLeast(addr, Word(16397, 0)) /\ WordLess(addr, Word(16448, 0)))
    \/ (WordAtLeast(addr, Word(16192, 0)) /\ WordLess(addr, Word(16256, 0)))

\* (a0 & 0x3fffffff) | 0x40000000
ReturnAddress(a0) == Word((a0[1] % 16384) + 16384, a0[2])

extractBacktrace(data, parsed) ==
    LET a0 == parsed.registers["A0"]
    IN  [parsed EXCEPT !.backtraceAddresses =
            @ \o parsed.pc
              \o (IF Truthy(parsed.registers, "A0") /\ isValidCodeAddress(a0)
                  THEN <<ReturnAddress(a0)>> ELSE <<>>)]

\* The loop reading the word after the one it should read.
parseRegisters_SkipsFirstWord(data, offset, size, littleEndian, parsed) ==
    LET numRegs == IF size[1] > 0 THEN Len(REGISTER_NAMES)
                   ELSE Least(size[2] \div 4, Len(REGISTER_NAMES))
        found   == {i \in 1..numRegs : offset + i * 4 + 4 <= Len(data)}
        value(i) == getUint32(data, offset + i * 4, littleEndian)
        read    == [name \in {REGISTER_NAMES[i] : i \in found} |->
                       value(CHOOSE i \in found : REGISTER_NAMES[i] = name)]
    IN  IF numRegs > 0 /\ offset < 0 THEN Raised(RangeErrorMessage)
        ELSE Returned([parsed EXCEPT
                !.registers = read @@ @,
                !.pc = IF Has(read, "PC") THEN <<read["PC"]>> ELSE @,
                !.exceptionCause = IF Has(read, "EXCCAUSE") THEN <<read["EXCCAUSE"]>> ELSE @])

\* numRegs = Math.min(Math.floor(size / 4), REGISTER_NAMES.length); a size of
\* 65536 or more is far above the table's length.
parseRegisters(data, offset, size, littleEndian, parsed) ==
    LET numRegs == IF size[1] > 0 THEN Len(REGISTER_NAMES)
                   ELSE Least(size[2] \div 4, Len(REGISTER_NAMES))
        found   == {i \in 1..numRegs : offset + (i - 1) * 4 + 4 <= Len(data)}
        value(i) == getUint32(data, offset + (i - 1) * 4, littleEndian)
        read    == [name \in {REGISTER_NAMES[i] : i \in found} |->
                       value(CHOOSE i \in found : REGISTER_NAMES[i] = name)]
    IN  IF numRegs > 0 /\ offset < 0 THEN Raised(RangeErrorMessage)
        ELSE Returned([parsed EXCEPT
                !.registers = read @@ @,
                !.pc = IF Has(read, "PC") THEN <<read["PC"]>> ELSE @,
                !.exceptionCause = IF Has(read, "EXCCAUSE") THEN <<read["EXCCAUSE"]>> ELSE @])

\* The while loop of parseNoteSection from position pos.  An iteration is a
\* function of pos alone, so the loop never ends once a position comes back.
RECURSIVE NoteRecords(_, _, _, _, _, _)
NoteRecords(data, pos, end, littleEndian, parsed, visited) ==
    IF ~(pos < end) THEN Returned(parsed)
    ELSE IF pos \in visited THEN Unending
    ELSE IF ~InBounds(data, pos, 4) \/ ~InBounds(data, pos + 4, 4) \/ ~InBounds(data, pos + 8, 4)
        THEN Raised(RangeErrorMessage)
    ELSE
        LET namesz    == getUint32(data, pos, littleEndian)
            descsz    == getUint32(data, pos + 4, littleEndian)
            noteType  == getUint32(data, pos + 8, littleEndian)
            descStart == pos + 12 + Align4(namesz)
            status    == IF noteType = Word(0, 1)
                         THEN parseRegisters(data, descStart, descsz, littleEndian, parsed)
                         ELSE Returned(parsed)
        IN  IF status.kind = "throw" THEN status
            ELSE NoteRecords(data, descStart + Align4(descsz), end, littleEndian,
                             status.parsed, visited \cup {pos})

parseNoteSection(data, offset, size, littleEndian, parsed) ==
    NoteRecords(data, offset, offset + size, littleEndian, parsed, {})

\* The for loop of parseElfCoredump over the program header entries, from
\* entry i.
RECURSIVE ProgramHeaders(_, _, _, _, _, _, _)
ProgramHeaders(data, i, phnum, phoff, phentsize, littleEndian, parsed) ==
    LET phStart == phoff + i * phentsize
    IN  IF ~(i < phnum) THEN [Returned(parsed) EXCEPT !.headersRead = i]
        ELSE IF ~InBounds(data, phStart, 4)
            THEN [Raised(RangeErrorMessage) EXCEPT !.headersRead = i]
        ELSE IF getUint32(data, phStart, littleEndian) # Word(0, 4)
            THEN ProgramHeaders(data, i + 1, phnum, phoff, phentsize, littleEndian, parsed)
        ELSE IF ~InBounds(data, phStart + 4, 4) \/ ~InBounds(data, phStart + 16, 4)
            THEN [Raised(RangeErrorMessage) EXCEPT !.headersRead = i + 1]
        ELSE
            LET pOffset == getUint32(data, phStart + 4, littleEndian)
                pFilesz == getUint32(data, phStart + 16, littleEndian)
                notes   == parseNoteSection(data, Num(pOffset), Num(pFilesz), littleEndian, parsed)
            IN  IF notes.kind # "return" THEN [notes EXCEPT !.headersRead = i + 1]
                ELSE ProgramHeaders(data, i + 1, phnum, phoff, phentsize, littleEndian,
                                    notes.parsed)

HasElfMagic(data) ==
    /\ Len(data) >= 4
    /\ data[1] = 127
    /\ data[2] = 69
    /\ data[3] = 76
    /\ data[4] = 70

parseElfCoredump(data) ==
    LET isLittleEndian == Len(data) >= 6 /\ data[6] = 1
        is32Bit        == Len(data) >= 5 /\ data[5] = 1
    IN  IF ~HasElfMagic(data) THEN Raised("Invalid ELF magic - not a valid coredump")
        ELSE IF ~is32Bit THEN Raised("Only 32-bit ELF coredumps are supported (ESP32)")
        ELSE IF ~InBounds(data, 28, 4) \/ ~InBounds(data, 42, 2) \/ ~InBounds(data, 44, 2)
            THEN Raised(RangeErrorMessage)
        ELSE
            LET phoff     == getUint32(data, 28, isLittleEndian)
                phentsize == getUint16(data, 42, isLittleEndian)
                phnum     == getUint16(data, 44, isLittleEndian)
                headers   == ProgramHeaders(data, 0, phnum, Num(phoff), phentsize,
                                            isLittleEndian, EmptyParsed)
            IN  IF headers.kind # "return" THEN headers
                ELSE IF Truthy(headers.parsed.registers, "A0")
                        /\ Truthy(headers.parsed.registers, "A1")
                    THEN [headers EXCEPT !.parsed = extractBacktrace(data, @)]
                ELSE headers

Optional(name, values, f(_)) ==
    IF values = <<>> THEN <<>> ELSE [n \in {name} |-> f(values[1])]

\* The CoredumpResponse of a dump that parsed; an undefined member is absent,
\* as in the JSON the endpoint sends.
CrashReport(parsed) ==
    [success    |-> TRUE,
     crash_info |-> [registers |-> [name \in DOMAIN parsed.registers |->
                                        FormatAddress(parsed.registers[name])]]
                    @@ Optional("exception_cause", parsed.exceptionCause, ExceptionCauseName)
                    @@ Optional("pc", parsed.pc, FormatAddress),
     backtrace  |-> [i \in DOMAIN parsed.backtraceAddresses |->
                        FormatAddress(parsed.backtraceAddresses[i])]]

ParseFailure(error) == [success |-> FALSE, error |-> error]

\* parseCoredump; `ended` is FALSE when the call never returns.
parseCoredump(base64Data) ==
    LET decoded == atob(base64Data)
        elf     == parseElfCoredump(decoded.bytes)
    IN  IF ~decoded.ok THEN [ended |-> TRUE, result |-> ParseFailure(InvalidCharacterError)]
        ELSE IF elf.kind = "throw" THEN [ended |-> TRUE, result |-> ParseFailure(elf.message)]
        ELSE IF elf.kind = "loop" THEN [ended |-> FALSE, result |-> Null]
        ELSE [ended |-> TRUE, result |-> CrashReport(elf.parsed)]

\* ------------------------------------------------------------------------
\* Coredump decoder: the dumps a device uploads
\* ------------------------------------------------------------------------
Bytes16(n, littleEndian) ==
    IF littleEndian THEN <<n % 256, n \div 256>> ELSE <<n \div 256, n % 256>>

Bytes32(w, littleEndian) ==
    IF littleEndian
    THEN Bytes16(w[2], littleEndian) \o Bytes16(w[1], littleEndian)
    ELSE Bytes16(w[1], littleEndian) \o Bytes16(w[2], littleEndian)

Zeros(n) == [i \in 1..n |-> 0]

\* The 52 bytes of an ELF32 header: e_ident at 0, e_phoff at 28, e_phentsize
\* at 42, e_phnum at 44.
ElfHeader(magic0, class, littleEndian, phoff, phentsize, phnum) ==
    <<magic0, 69, 76, 70, class, IF littleEndian THEN 1 ELSE 2>> \o Zeros(22)
    \o Bytes32(phoff, littleEndian) \o Zeros(10)
    \o Bytes16(phentsize, littleEndian) \o Bytes16(phnum, littleEndian) \o Zeros(6)

\* The 32 bytes of a program header entry: p_type at 0, p_offset at 4,
\* p_filesz at 16.
ProgramHeader(pType, pOffset, pFilesz, littleEndian) ==
    Bytes32(pType, littleEndian) \o Bytes32(pOffset, littleEndian) \o Zeros(8)
    \o Bytes32(pFilesz, littleEndian) \o Zeros(12)

NoteHeader(namesz, descsz, noteType, littleEndian) ==
    Bytes32(namesz, littleEndian) \o Bytes32(descsz, littleEndian)
    \o Bytes32(noteType, littleEndian)

\* "CORE" and its terminator, padded to a multiple of four bytes.
CoreName == <<67, 79, 82, 69, 0, 0, 0, 0>>

WordBytes(words, littleEndian) ==
    [i \in 1..(4 * Len(words)) |->
        Bytes32(words[((i - 1) \div 4) + 1], littleEndian)[((i - 1) % 4) + 1]]

\* The first numRegs words of a register dump in the order of REGISTER_NAMES.
RegisterWords(numRegs, pc, a0, a1, exccause) ==
    [i \in 1..numRegs |->
        IF i > Len(REGISTER_NAMES) THEN Word(0, i)
        ELSE CASE REGISTER_NAMES[i] = "PC"       -> pc
               [] REGISTER_NAMES[i] = "A0"       -> a0
               [] REGISTER_NAMES[i] = "A1"       -> a1
               [] REGISTER_NAMES[i] = "EXCCAUSE" -> exccause
               [] OTHER                          -> Word(0, i)]

PT_LOAD == Word(0, 1)

PT_NOTE == Word(0, 4)

NT_PRSTATUS == Word(0, 1)

\* A dump with one process-status note after `leading` entries of another
\* type.
Dump(littleEndian, leading, numRegs, pc, a0, a1, exccause) ==
    LET header(phnum) == ElfHeader(127, 1, littleEndian, Word(0, 52), 32, phnum)
        loads    == WordBytes([i \in 1..(8 * leading) |-> IF i % 8 = 1 THEN PT_LOAD ELSE Zero],
                              littleEndian)
        noteAt   == 52 + 32 * (leading + 1)
        note     == NoteHeader(Word(0, 5), Word(0, 4 * numRegs), NT_PRSTATUS, littleEndian)
                    \o CoreName
                    \o WordBytes(RegisterWords(numRegs, pc, a0, a1, exccause), littleEndian)
    IN  header(leading + 1) \o loads
        \o ProgramHeader(PT_NOTE, Word(0, noteAt), Word(0, Len(note)), littleEndian)
        \o note

ProgramCounters == {Word(16397, 4660), Zero}

\* A0: zero; a flash-cache address; the same with the window bits of a
\* CALL8; a flash-data address; a data-RAM address; an instruction-RAM
\* address with the window bits of a CALL12.
ReturnRegisters ==
    {Zero, Word(16397, 22136), Word(32781, 22136), Word(16192, 4096),
     Word(16379, 0), Word(49160, 4660)}

StackRegisters == {Zero, Word(16379, 7936)}

CauseCodes == {Zero, Word(0, 7), Word(0, 28), Word(0, 29), Word(0, 64), Word(65535, 65535)}

RegisterCounts == {0, 1, 3, 4, 20}

WellFormedDumps ==
    {Dump(le, 0, n, pc, a0, a1, cause) :
        le \in BOOLEAN, n \in RegisterCounts, pc \in ProgramCounters,
        a0 \in ReturnRegisters, a1 \in StackRegisters, cause \in CauseCodes}
    \cup {Dump(TRUE, 1, 20, Word(16397, 4660), Word(32781, 22136), Word(16379, 7936), Word(0, 28)),
          Dump(TRUE, 0, Len(REGISTER_NAMES), Word(16397, 4660), Word(32781, 22136),
               Word(16379, 7936), Word(0, 28)),
          Dump(FALSE, 0, Len(REGISTER_NAMES) + 2, Word(16397, 4660), Zero, Zero, Word(0, 7))}

SampleDump == Dump(TRUE, 0, 20, Word(16397, 4660), Word(32781, 22136), Word(16379, 7936), Word(0, 28))

\* Dumps that are cut short or refer outside themselves.
DamagedDumps ==
    LET le == TRUE
        header(phoff, phnum) == ElfHeader(127, 1, le, phoff, 32, phnum)
        entry(pOffset, pFilesz) == ProgramHeader(PT_NOTE, pOffset, pFilesz, le)
    IN  {SubSeq(SampleDump, 1, n) : n \in {0, 3, 5, 30, 45, 46, 51, 60, 84, 90, 100, 120}}
        \cup {ElfHeader(126, 1, le, Word(0, 52), 32, 1) \o SubSeq(SampleDump, 53, Len(SampleDump)),
              ElfHeader(127, 2, le, Word(0, 52), 32, 1) \o SubSeq(SampleDump, 53, Len(SampleDump)),
              ElfHeader(127, 0, le, Word(0, 52), 32, 1) \o SubSeq(SampleDump, 53, Len(SampleDump)),
              header(Word(0, 52), 0),
              header(Word(0, 4096), 1) \o SubSeq(SampleDump, 53, Len(SampleDump)),
              header(Word(0, 52), 2) \o SubSeq(SampleDump, 53, Len(SampleDump)),
              header(Word(0, 52), 1) \o entry(Word(0, 4096), Word(0, 16)),
              header(Word(0, 52), 1) \o entry(Word(0, 4096), Zero),
              header(Word(0, 52), 1) \o entry(Word(0, 84), Word(0, 64))
                  \o NoteHeader(Word(0, 5), Word(0, 8), NT_PRSTATUS, le),
              header(Word(0, 52), 1) \o entry(Word(0, 84), Word(0, 12))
                  \o NoteHeader(Zero, Word(0, 80), NT_PRSTATUS, le)
                  \o Bytes32(Word(16397, 4660), le),
              header(Word(0, 52), 1) \o entry(Word(0, 84), Word(0, 12))
                  \o NoteHeader(Word(65535, 65524), Zero, Word(0, 3), le),
              header(Word(0, 52), 1) \o entry(Word(0, 84), Word(0, 12))
                  \o NoteHeader(Word(65535, 65520), Word(0, 8), NT_PRSTATUS, le)}

NotBase64 == {"%%%%", "f0VMR", "f0VM*gEB", "f0VMRg=A"}

CoredumpInputs ==
    {btoa(dump) : dump \in WellFormedDumps \cup DamagedDumps}
    \cup NotBase64
    \cup {" " \o btoa(SampleDump) \o "\n", SubSeq(btoa(SubSeq(SampleDump, 1, 46)), 1, 62)}

\* POST /coredump: one call of the decoder on an uploaded string.
ParseCoredump ==
    /\ calc = NoCall
    /\ \E input \in CoredumpInputs :
        LET decoded == atob(input)
        IN  calc' = [op      |-> "parseCoredump",
                     input   |-> input,
                     decoded |-> decoded,
                     elf     |-> parseElfCoredump(decoded.bytes),
                     call    |-> parseCoredump(input)]
    /\ UNCHANGED sysVars

NextCoredump == ParseCoredump

SpecCoredump == InitOTA /\ [][NextCoredump]_vars

\* ------------------------------------------------------------------------
\* The manifest of a variant: GET /projects/:slug/:variant (index.ts 126-186)
\* ------------------------------------------------------------------------
SlugParams == ProjectHeaders \ {""}

VariantParams == VariantHeaders \ {""}

\* The handler up to its first await.
ServePrecheck(slug, variant) ==
    IF ~isSafeIdentifier(slug, DefaultMaxLen) THEN jsonError(400, "Invalid project slug")
    ELSE IF ~isSafeIdentifier(variant, DefaultMaxLen) THEN jsonError(400, "Invalid variant")
    ELSE IF FindProject(slug) = Null THEN jsonError(404, "Project " \o slug \o " not found")
    ELSE NoResponse

\* path ? baseUrl + path : path
RewritePath(path, baseUrl) == IF path # "" THEN baseUrl \o path ELSE path

RewriteParts(parts, baseUrl) ==
    [j \in DOMAIN parts |-> [parts[j] EXCEPT !.path = RewritePath(@, baseUrl)]]

\* manifest.builds.map(...): every part of every build.
RewriteManifest(manifest, baseUrl) ==
    [manifest EXCEPT !.builds =
        [i \in DOMAIN manifest.builds |->
            [manifest.builds[i] EXCEPT !.parts = RewriteParts(@, baseUrl)]]]

ServedManifest(manifest) == [status |-> 200, body |-> manifest]

ServeRespond(r) == serve' = [serve EXCEPT !.pc = "responded", !.resp = r]

\* A request arrives and runs to the first await.
ServeRequest ==
    /\ serve.pc = "idle"
    /\ \E slug \in SlugParams, variant \in VariantParams :
         LET r == ServePrecheck(slug, variant)
         IN  serve' = [ServeIdle EXCEPT
                         !.pc = IF r = NoResponse THEN "fetchLatest" ELSE "responded",
                         !.slug = slug, !.variant = variant, !.seen = bucket, !.resp = r]
    /\ UNCHANGED <<bucket, releases, ledger, appEnv, queue, wk, snap, ota, cache, hook, projectTable, calc, now, cacheKV, gh, fl>>

\* fetchLatestRelease, then the search for the variant's manifest asset.
ServeFetchLatest ==
    /\ serve.pc = "fetchLatest"
    /\ LET repo == FindProject(serve.slug).repository_slug
           cached == getCachedRelease(cache, repo)
           go(release) ==
               LET manifestAsset == FindAsset(release.assets, serve.variant \o "_manifest.json")
               IN  IF manifestAsset = NoAsset
                   THEN ServeRespond(jsonError(404, "Variant " \o serve.variant
                                        \o " not found for project " \o serve.slug))
                   ELSE serve' = [serve EXCEPT !.pc = "fetchManifest",
                                               !.manifestAsset = manifestAsset]
       IN  IF cached # Null
           THEN go(cached) /\ UNCHANGED cache
           ELSE \E res \in GitHubLatest(repo) :
                  IF ~res.ok
                  THEN /\ ServeRespond(jsonError(502, "Error fetching data from GitHub: "
                                                      \o res.statusText))
                       /\ UNCHANGED cache
                  ELSE /\ cache' = setCachedRelease(cache, repo, res.release)
                       /\ go(res.release)
    /\ UNCHANGED <<bucket, releases, ledger, appEnv, queue, wk, snap, ota, hook, projectTable, calc, now, cacheKV, gh, fl>>

\* The manifest fetch, the rewrite of the paths and the response.
ServeFetchManifest ==
    /\ serve.pc = "fetchManifest"
    /\ \E res \in {"not ok", "malformed", "ok"} :
         CASE res = "not ok" ->
                ServeRespond(jsonError(500, "Failed to fetch manifest for " \o serve.variant
                                            \o ": Not Found"))
           [] res = "malformed" ->
                ServeRespond(jsonError(500, "Error processing manifest for " \o serve.variant))
           [] res = "ok" ->
                LET manifest == GitHubManifest(serve.manifestAsset.browser_download_url)
                    baseUrl  == ReplaceFirst(serve.manifestAsset.browser_download_url,
                                             serve.manifestAsset.name, "")
                IN  serve' = [serve EXCEPT
                                !.pc = "responded", !.fetched = manifest,
                                !.resp = ServedManifest(RewriteManifest(manifest, baseUrl))]
    /\ UNCHANGED <<bucket, releases, ledger, appEnv, queue, wk, snap, ota, cache, hook, projectTable, calc, now, cacheKV, gh, fl>>

\* The response is sent; the handler is ready for the next request.
ServeDone ==
    /\ serve.pc = "responded"
    /\ serve' = ServeIdle
    /\ UNCHANGED <<bucket, releases, ledger, appEnv, queue, wk, snap, ota, cache, hook, projectTable, calc, now, cacheKV, gh, fl>>

\* What ingestion has left in the bucket: nothing, or the canonical manifests
\* of the v1.2.0 release of MATRX-fw.
IngestedBuckets ==
    LET url(variant) == DownloadUrl("koiosdigital/MATRX-fw", "v1.2.0", variant \o "_manifest.json")
        put(b, variant) ==
            storeFirmware(b, "MATRX-fw", variant, "1.2.0", "manifest.json",
                          [json |-> GitHubManifest(url(variant))], "application/json")
    IN  {<<>>, put(<<>>, "MINI"), put(put(<<>>, "MINI"), "MAX")}

InitServe ==
    /\ bucket \in IngestedBuckets
    /\ releases = <<>>
    /\ ledger = <<>>
    /\ appEnv = FALSE
    /\ queue = {}
    /\ wk = [w \in Workers |-> Idle]
    /\ snap = NoSnap
    /\ ota = OtaIdle
    /\ cache = [r \in Repositories |-> NoRelease]
    /\ hook = HookIdle
    /\ serve = ServeIdle
    /\ projectTable = NoProjects
    /\ calc = NoCall
    /\ now = 0
    /\ cacheKV = [r \in Repositories |-> NoRelease]
    /\ gh = NoDeliveries
    /\ fl = [c \in FetchCallers |-> FetchIdle]

NextServe == ServeRequest \/ ServeFetchLatest \/ ServeFetchManifest \/ ServeDone \/ CacheExpire

SpecServe == InitServe /\ [][NextServe]_vars

\* ------------------------------------------------------------------------
\* The projects table (db.ts 21-56, schema.sql 2-9)
\* ------------------------------------------------------------------------
MaxUpserts == 4

\* repository.full_name of the repositories that send release events.
RepositoryNames ==
    {"koiosdigital/matrx-fw", "koiosdigital/clock-fw", "forks/matrx-fw", "firmware"}

RepositoryTitles == {"matrx-fw", "MATRX Firmware"}

\* repositorySlug.split('/').pop()
SlugOfRepository(repositorySlug) ==
    LET pieces == SplitOn(repositorySlug, {"/"}) IN pieces[Len(pieces)]

\* SELECT * FROM projects WHERE repository_slug = ?, first row or Null
getProjectByRepository(table, repositorySlug) ==
    LET hits == {i \in DOMAIN table.rows : table.rows[i].repository_slug = repositorySlug}
    IN  IF hits = {} THEN Null ELSE table.rows[CHOOSE i \in hits : \A j \in hits : i <= j]

\* INSERT ... ON CONFLICT(repository_slug) DO UPDATE SET name, updated_at.
\* The result is [raised, table]: a row with the slug and another repository
\* violates UNIQUE(slug), and the statement fails.
UpsertStatement(table, slug, repositorySlug, name) ==
    LET sameRepo == {i \in DOMAIN table.rows : table.rows[i].repository_slug = repositorySlug}
        sameSlug == {i \in DOMAIN table.rows : table.rows[i].slug = slug}
        row == [id |-> table.sequence + 1, slug |-> slug, repository_slug |-> repositorySlug,
                name |-> name, created_at |-> table.now, updated_at |-> table.now]
    IN  IF sameRepo # {}
        THEN [raised |-> "",
              table  |-> [table EXCEPT
                            !.sequence = @ + 1,
                            !.rows = [i \in DOMAIN @ |->
                                        IF i \in sameRepo
                                        THEN [@[i] EXCEPT !.name = name,
                                                          !.updated_at = table.now]
                                        ELSE @[i]]]]
        ELSE IF sameSlug # {}
        THEN [raised |-> "UNIQUE constraint failed: projects.slug", table |-> table]
        ELSE [raised |-> "",
              table  |-> [table EXCEPT !.sequence = @ + 1, !.rows = Append(@, row)]]

\* upsertProject: [raised, table, project]
upsertProject(table, repositorySlug, name) ==
    LET slug    == SlugOfRepository(repositorySlug)
        done    == UpsertStatement(table, slug, repositorySlug, name)
        project == getProjectByRepository(done.table, repositorySlug)
    IN  IF done.raised # "" THEN [raised |-> done.raised, table |-> done.table, project |-> Null]
        ELSE IF project = Null
            THEN [raised |-> "Failed to upsert project", table |-> done.table, project |-> Null]
        ELSE [raised |-> "", table |-> done.table, project |-> project]

\* A release event of a repository reaches upsertProject; a second has passed
\* since the call before.
UpsertProject ==
    /\ projectTable.now < MaxUpserts
    /\ \E repositorySlug \in RepositoryNames, name \in RepositoryTitles :
         LET before == [projectTable EXCEPT !.now = @ + 1]
             call   == upsertProject(before, repositorySlug, name)
         IN  /\ projectTable' = call.table
             /\ calc' = [op |-> "upsertProject", repositorySlug |-> repositorySlug,
                         name |-> name, before |-> projectTable.rows,
                         raised |-> call.raised, project |-> call.project]
    /\ UNCHANGED <<bucket, releases, ledger, appEnv, queue, wk, snap, ota, cache, hook, serve, now, cacheKV, gh, fl>>

NextProjects == UpsertProject

SpecProjects == InitOTA /\ [][NextProjects]_vars

\* ------------------------------------------------------------------------
\* The ledger and the release index, called on drawn arguments
\* ------------------------------------------------------------------------
MaxMarks == 4

MarkedAssetIds == {101, 102, 201}

MarkedProjectIds == {1, 2}

\* The asset ids marked so far and the number of calls.
MarksSoFar == IF calc.op = "markAssetProcessed" THEN calc.marked ELSE {}

MarkCalls == IF calc.op = "markAssetProcessed" THEN calc.calls ELSE 0

\* A call of markAssetProcessed on the ledger as it is.
MarkAsset ==
    /\ calc.op \in {"none", "markAssetProcessed"}
    /\ MarkCalls < MaxMarks
    /\ \E assetId \in MarkedAssetIds, projectId \in MarkedProjectIds :
         LET r == markAssetProcessed(ledger, assetId, projectId)
         IN  /\ ledger' = r.rows
             /\ calc' = [op |-> "markAssetProcessed", assetId |-> assetId,
                         projectId |-> projectId, before |-> ledger, threw |-> r.threw,
                         marked |-> MarksSoFar \cup {assetId}, calls |-> MarkCalls + 1]
    /\ UNCHANGED <<bucket, releases, appEnv, queue, wk, snap, ota, cache, hook, serve, projectTable, now, cacheKV, gh, fl>>

NextLedger == MarkAsset

SpecLedger == InitOTA /\ [][NextLedger]_vars

MaxInserts == 3

InsertedProjectIds == {1, 2}

InsertedVariants == {"MATRX_MINI", "MATRX_MAX"}

InsertedVersions == {"1.2.3", "v1.2.3", "2.0", "beta"}

InsertCalls == IF calc.op = "insertRelease" THEN calc.calls ELSE 0

\* A call of insertRelease on the release index as it is.
InsertRelease ==
    /\ calc.op \in {"none", "insertRelease"}
    /\ InsertCalls < MaxInserts
    /\ \E projectId \in InsertedProjectIds, variant \in InsertedVariants,
          version \in InsertedVersions :
         LET r == insertRelease(releases, projectId, variant, version)
         IN  /\ releases' = r.rows
             /\ calc' = [op |-> "insertRelease", projectId |-> projectId,
                         variant |-> variant, version |-> version,
                         before |-> releases, threw |-> r.threw, calls |-> InsertCalls + 1]
    /\ UNCHANGED <<bucket, ledger, appEnv, queue, wk, snap, ota, cache, hook, serve, projectTable, now, cacheKV, gh, fl>>

NextReleases == InsertRelease

SpecReleases == InitOTA /\ [][NextReleases]_vars

\* ------------------------------------------------------------------------
\* syncReleaseToR2, the ledger-gated run over a whole GitHub release
\* ------------------------------------------------------------------------
MaxSyncs == 2

\* The calls made: a project and a release of it as GitHub lists it
\* (types.ts GitHubRelease: tag_name, assets with id and name).
SyncedReleases ==
    << [projectId |-> 1, projectSlug |-> "widget-fw",
        release |-> [tag_name |-> "v1.2.0",
                     assets |-> << [id |-> 101, name |-> "WIDGET_manifest.json"],
                                   [id |-> 111, name |-> "WIDGET_app.bin"],
                                   [id |-> 112, name |-> "WIDGET.elf"] >>]],
       [projectId |-> 2, projectSlug |-> "lamp-fw",
        release |-> [tag_name |-> "beta",
                     assets |-> << [id |-> 201, name |-> "LAMP_manifest.json"],
                                   [id |-> 211, name |-> "LAMP_app.bin"] >>]],
       [projectId |-> 3, projectSlug |-> "panel-fw",
        release |-> [tag_name |-> "2.0.0",
                     assets |-> << [id |-> 301, name |-> "PANEL_manifest.json"],
                                   [id |-> 311, name |-> "PANEL_app.bin"],
                                   [id |-> 302, name |-> "PANEL_manifest.json.v2_manifest.json"] >>]] >>

\* What the environment does to the steps taken for one manifest.
SyncOutcomes ==
    {"manifest not ok", "malformed", "put fails", "files not ok", "mark fails", "all ok"}

\* release.assets.filter((a) => a.name.endsWith('_manifest.json'))
ManifestAssets(release) ==
    SelectSeq(release.assets, LAMBDA a : EndsWith(a.name, "_manifest.json"))

\* release.tag_name.replace(/^v/i, '')
SyncVersion(release) ==
    IF StartsWith(release.tag_name, "v") \/ StartsWith(release.tag_name, "V")
    THEN Tail(release.tag_name) ELSE release.tag_name

\* The loop over referencedFiles: st holds the bucket, the ledger and the
\* arrays stored, errors and variantsSet.
RECURSIVE SyncFiles(_, _, _, _, _, _, _)
SyncFiles(st, files, names, projectSlug, variant, version, outcome) ==
    IF files = <<>> THEN st
    ELSE LET filename == Head(files)
             next ==
                 IF filename \notin names
                 THEN [st EXCEPT !.errors =
                          Append(@, "Referenced file not found in release: " \o filename)]
                 ELSE IF outcome = "files not ok"
                      THEN [st EXCEPT !.errors = Append(@, "Failed to fetch " \o filename)]
                      ELSE [st EXCEPT
                               !.bucket = storeFirmware(@, projectSlug, variant, version, filename,
                                                        UpstreamBytes(filename),
                                                        "application/octet-stream"),
                               !.stored = Append(@, filename)]
         IN  SyncFiles(next, Tail(files), names, projectSlug, variant, version, outcome)

\* The body of the loop over newManifests for one manifest asset.
SyncManifest(st, projectId, projectSlug, release, manifestAsset, outcome) ==
    LET version == SyncVersion(release)
        variant == ReplaceFirst(manifestAsset.name, "_manifest.json", "")
        names == {release.assets[i].name : i \in DOMAIN release.assets}
        seen == [st EXCEPT !.variants = Dedup(Append(@, variant))]
        caught(s, msg) ==
            [s EXCEPT !.errors = Append(@, "Error processing " \o manifestAsset.name \o ": " \o msg)]
        manifestJson == UpstreamManifest(manifestAsset.id)
        withManifest ==
            [seen EXCEPT !.bucket = storeFirmware(@, projectSlug, variant, version, "manifest.json",
                                                  [json |-> manifestJson], "application/json"),
                         !.stored = Append(@, manifestAsset.name)]
        withFiles == SyncFiles(withManifest, ReferencedFiles(manifestJson), names, projectSlug,
                               variant, version, outcome)
        elfFilename == variant \o ".elf"
        withElf ==
            IF elfFilename \in names /\ outcome # "files not ok"
            THEN [withFiles EXCEPT
                     !.bucket = storeFirmware(@, projectSlug, variant, version, elfFilename,
                                              UpstreamBytes(elfFilename),
                                              "application/octet-stream"),
                     !.stored = Append(@, elfFilename)]
            ELSE withFiles
    IN  CASE outcome = "manifest not ok" ->
               [seen EXCEPT !.errors = Append(@, "Failed to fetch " \o manifestAsset.name)]
          [] outcome = "malformed" -> caught(seen, "SyntaxError")
          [] outcome = "put fails" -> caught(seen, "R2 put failed")
          [] outcome = "mark fails" -> caught(withElf, "D1 error")
          [] OTHER ->
               [withElf EXCEPT !.ledger =
                   markAssetProcessed(@, manifestAsset.id, projectId).rows]

\* The loop over newManifests.
RECURSIVE SyncManifests(_, _, _, _, _, _)
SyncManifests(st, newManifests, projectId, projectSlug, release, outcomes) ==
    IF newManifests = <<>> THEN st
    ELSE SyncManifests(SyncManifest(st, projectId, projectSlug, release, Head(newManifests),
                                    outcomes[Head(newManifests).id]),
                       Tail(newManifests), projectId, projectSlug, release, outcomes)

\* The loop over the variants: insertRelease in its own try/catch. rec holds the
\* releases table and the errors the loop adds.
RECURSIVE RecordVariants(_, _, _, _, _)
RecordVariants(rec, variants, projectId, version, d1) ==
    IF variants = <<>> THEN rec
    ELSE LET variant == Head(variants)
             r == insertRelease(rec.releases, projectId, variant, version)
             msg == IF r.threw # "" THEN r.threw ELSE "D1 error"
             next ==
                 IF r.threw # "" \/ d1[variant] = "error"
                 THEN [rec EXCEPT !.errors =
                          Append(@, "Error recording release " \o variant \o "@"
                                    \o version \o ": " \o msg)]
                 ELSE [rec EXCEPT !.releases = r.rows]
         IN  RecordVariants(next, Tail(variants), projectId, version, d1)

\* storage.ts syncReleaseToR2. outcomes gives the environment's part for each
\* manifest asset id, d1 whether D1 executes the insert of each variant.
syncReleaseToR2(b, rel, led, projectId, projectSlug, release, outcomes, d1) ==
    LET version == SyncVersion(release)
        manifestAssets == ManifestAssets(release)
        manifestIds == {manifestAssets[i].id : i \in DOMAIN manifestAssets}
        processedIds == getProcessedAssetIds(led, manifestIds)
        newManifests == SelectSeq(manifestAssets, LAMBDA a : a.id \notin processedIds)
        skipped == Len(manifestAssets) - Len(newManifests)
        synced == SyncManifests([bucket |-> b, ledger |-> led, stored |-> <<>>,
                                 errors |-> <<>>, variants |-> <<>>],
                                newManifests, projectId, projectSlug, release, outcomes)
        recorded == RecordVariants([releases |-> rel, errors |-> <<>>],
                                   synced.variants, projectId, version, d1)
    IN  [bucket |-> synced.bucket, releases |-> recorded.releases, ledger |-> synced.ledger,
         stored |-> synced.stored, skipped |-> skipped, variants |-> synced.variants,
         errors |-> synced.errors \o recorded.errors]

SyncRuns == IF calc.op = "syncReleaseToR2" THEN calc.runs ELSE 0

\* One run of syncReleaseToR2 on the stores as they are.
SyncRelease ==
    /\ calc.op \in {"none", "syncReleaseToR2"}
    /\ SyncRuns < MaxSyncs
    /\ \E s \in DOMAIN SyncedReleases :
         LET in == SyncedReleases[s]
             manifestAssets == ManifestAssets(in.release)
             ids == {manifestAssets[i].id : i \in DOMAIN manifestAssets}
             vs == {ReplaceFirst(manifestAssets[i].name, "_manifest.json", "") :
                       i \in DOMAIN manifestAssets}
         IN  \E outcomes \in [ids -> SyncOutcomes], d1 \in [vs -> {"ok", "error"}] :
               \E r \in {syncReleaseToR2(bucket, releases, ledger, in.projectId,
                                          in.projectSlug, in.release, outcomes, d1)} :
                   /\ bucket' = r.bucket
                   /\ releases' = r.releases
                   /\ ledger' = r.ledger
                   /\ calc' = [op |-> "syncReleaseToR2", projectId |-> in.projectId,
                               release |-> in.release, before |-> ledger,
                               stored |-> r.stored, skipped |-> r.skipped,
                               variants |-> r.variants, errors |-> r.errors,
                               runs |-> SyncRuns + 1]
    /\ UNCHANGED <<appEnv, queue, wk, snap, ota, cache, hook, serve, projectTable, now, cacheKV, gh, fl>>

NextSync == SyncRelease

SpecSync == InitOTA /\ [][NextSync]_vars

\* ------------------------------------------------------------------------
\* The version loop of the earlier OTA check handler
\* ------------------------------------------------------------------------

\* The longest prefix of s made of decimal digits.
RECURSIVE DigitPrefix(_)
DigitPrefix(s) ==
    IF s # "" /\ Ch(s, 1) \in Digits THEN Ch(s, 1) \o DigitPrefix(Tail(s)) ELSE ""

\* parseInt(s, 10): leading blanks are skipped, a sign is read, then the
\* longest run of digits; <<n>> is the number n and <<>> is NaN.
parseInt(s) ==
    LET t == TrimStart(s)
        negative == StartsWith(t, "-")
        u == IF negative \/ StartsWith(t, "+") THEN Tail(t) ELSE t
        digits == DigitPrefix(u)
    IN  IF digits = "" THEN <<>>
        ELSE IF negative THEN <<0 - DecimalValue(digits)>> ELSE <<DecimalValue(digits)>>

\* a < b on numbers: false as soon as one side is NaN.
NumberLess(a, b) == a # <<>> /\ b # <<>> /\ a[1] < b[1]

\* parts[i] || '0'
PartOrZero(parts, i) == IF i \in DOMAIN parts /\ parts[i] # "" THEN parts[i] ELSE "0"

\* The handler's loop: version = tag_name.replace('v', ''), both strings split
\* on '.', hasUpdate set at the first position whose device component is less
\* than the latest one.
hasUpdate(currentVersion, tagName) ==
    LET currentVersionParts == SplitOn(currentVersion, {"."})
        versionParts == SplitOn(ReplaceFirst(tagName, "v", ""), {"."})
        n == IF Len(currentVersionParts) > Len(versionParts)
             THEN Len(currentVersionParts) ELSE Len(versionParts)
    IN  \E i \in 1..n :
          NumberLess(parseInt(PartOrZero(currentVersionParts, i)),
                     parseInt(PartOrZero(versionParts, i)))

\* The x-firmware-version headers and the tag names the loop is run on.
DeviceVersions ==
    {"0.9.9", "1.0.0", "1.2", "1.2.0", "1.4.9", "1.5.0", "1.5.1", "1.10.0", "2", "2.0.0",
     "2.1.3", "", "abc", "1..5"}

LatestTags == {"v1.5.0", "1.5.0", "v2.0.0", "v1.5", "v2", "v1.10.2", "v0.9.10", "dev-7"}

\* The loop run for one request.
CheckEarlier ==
    /\ calc = NoCall
    /\ \E currentVersion \in DeviceVersions, tagName \in LatestTags :
         calc' = [op |-> "hasUpdate", currentVersion |-> currentVersion,
                  tagName |-> tagName, hasUpdate |-> hasUpdate(currentVersion, tagName)]
    /\ UNCHANGED sysVars

NextEarlier == CheckEarlier

SpecEarlier == InitOTA /\ [][NextEarlier]_vars

\* ------------------------------------------------------------------------
\* fetchLatestRelease calls running beside the webhook, with the clock
\* ------------------------------------------------------------------------

CACHE_TTL_SECONDS == 300

\* The values Date.now() takes.
Instants == {0, 300000, 300001}

\* The repository the calls are made for.
FetchedRepo == "koiosdigital/MATRX-fw"

\* The tags GitHub publishes for the repository, in order.
PublishedTags == <<"v1.2.0", "v9.0.0">>

Published(n) == CHOOSE r \in GitHubReleases(FetchedRepo) : r.tag_name = PublishedTags[n]

\* The getCachedRelease that returns whatever the entry holds.
getCachedReleaseAt_NoAgeCheck(kvNs, repoSlug, time) ==
    IF kvNs[repoSlug] = NoRelease THEN Null ELSE kvNs[repoSlug].release

\* cache.ts getCachedRelease at Date.now() = time: the release of the entry,
\* or Null for no entry and for an entry older than the TTL.
getCachedReleaseAt(kvNs, repoSlug, time) ==
    LET cached == kvNs[repoSlug]
    IN  IF cached = NoRelease THEN Null
        ELSE IF time - cached.cached_at > CACHE_TTL_SECONDS * 1000 THEN Null
        ELSE cached.release

\* cache.ts setCachedRelease at Date.now() = time
setCachedReleaseAt(kvNs, repoSlug, release, time) ==
    [kvNs EXCEPT ![repoSlug] = [release |-> release, cached_at |-> time]]

\* What GET /repos/{repo}/releases/latest may answer while the n-th release is
\* the latest: a failure, a body that is not JSON, a JSON body without
\* tag_name, one whose assets is not an array, or the release.
GitHubAnswers(n) ==
    { [ok |-> FALSE, statusText |-> "Service Unavailable", parses |-> FALSE,
       isArray |-> FALSE, json |-> NoRelease],
      [ok |-> TRUE, statusText |-> "OK", parses |-> FALSE, isArray |-> FALSE,
       json |-> NoRelease],
      [ok |-> TRUE, statusText |-> "OK", parses |-> TRUE, isArray |-> TRUE,
       json |-> [tag_name |-> "", assets |-> Published(n).assets]],
      [ok |-> TRUE, statusText |-> "OK", parses |-> TRUE, isArray |-> FALSE,
       json |-> [tag_name |-> Published(n).tag_name, assets |-> <<>>]],
      [ok |-> TRUE, statusText |-> "OK", parses |-> TRUE, isArray |-> TRUE,
       json |-> Published(n)] }

\* fetchLatestRelease from the answer of GitHub to its return value.
FetchResult(res) ==
    IF ~res.ok
    THEN [ok |-> FALSE, status |-> 503, statusText |-> res.statusText, release |-> NoRelease]
    ELSE IF ~res.parses
    THEN [ok |-> FALSE, status |-> 502, statusText |-> "Invalid JSON from GitHub",
          release |-> NoRelease]
    ELSE IF res.json.tag_name = "" \/ ~res.isArray
    THEN [ok |-> FALSE, status |-> 502, statusText |-> "Unexpected GitHub API response",
          release |-> NoRelease]
    ELSE [ok |-> TRUE, status |-> 200, statusText |-> "", release |-> res.json]

\* A handler calls fetchLatestRelease.
FlStart(c) ==
    /\ fl[c].pc = "idle"
    /\ fl' = [fl EXCEPT ![c] = [FetchIdle EXCEPT !.pc = "cache", !.repoSlug = FetchedRepo,
                                               !.started = gh.invalidated]]
    /\ UNCHANGED <<bucket, releases, ledger, appEnv, queue, wk, snap, ota, cache, hook, serve, projectTable, calc, now, cacheKV, gh>>

\* The call reads the cache: a hit is returned, a miss goes on to GitHub.
FlGetCached(c) ==
    /\ fl[c].pc = "cache"
    /\ LET cached == getCachedReleaseAt(cacheKV, fl[c].repoSlug, now)
       IN  fl' = [fl EXCEPT ![c].seen = cacheKV[fl[c].repoSlug], ![c].at = now,
                            ![c].pc = IF cached # Null THEN "returned" ELSE "fetch",
                            ![c].result = IF cached # Null
                                          THEN [ok |-> TRUE, status |-> 200,
                                                statusText |-> "", release |-> cached]
                                          ELSE @]
    /\ UNCHANGED <<bucket, releases, ledger, appEnv, queue, wk, snap, ota, cache, hook, serve, projectTable, calc, now, cacheKV, gh>>

\* GitHub answers; a response that is not a release ends the call.
FlFetch(c) ==
    /\ fl[c].pc = "fetch"
    /\ \E res \in GitHubAnswers(gh.published) :
         LET result == FetchResult(res)
         IN  fl' = [fl EXCEPT ![c].body = res, ![c].result = result,
                              ![c].pc = IF result.ok THEN "store" ELSE "returned"]
    /\ UNCHANGED <<bucket, releases, ledger, appEnv, queue, wk, snap, ota, cache, hook, serve, projectTable, calc, now, cacheKV, gh>>

\* The call stores the validated release and returns it.
FlStore(c) ==
    /\ fl[c].pc = "store"
    /\ cacheKV' = setCachedReleaseAt(cacheKV, fl[c].repoSlug, fl[c].result.release, now)
    /\ fl' = [fl EXCEPT ![c].pc = "returned"]
    /\ UNCHANGED <<bucket, releases, ledger, appEnv, queue, wk, snap, ota, cache, hook, serve, projectTable, calc, now, gh>>

\* The handler has used the result.
FlReturn(c) ==
    /\ fl[c].pc = "returned"
    /\ fl' = [fl EXCEPT ![c] = FetchIdle]
    /\ UNCHANGED <<bucket, releases, ledger, appEnv, queue, wk, snap, ota, cache, hook, serve, projectTable, calc, now, cacheKV, gh>>

\* GitHub publishes the next release of the repository.
Publish ==
    /\ gh.published < Len(PublishedTags)
    /\ gh' = [gh EXCEPT !.published = @ + 1]
    /\ UNCHANGED <<bucket, releases, ledger, appEnv, queue, wk, snap, ota, cache, hook, serve, projectTable, calc, now, cacheKV, fl>>

\* The webhook handler of a published release deletes the cache entry.
Invalidate ==
    /\ gh.invalidated < gh.published
    /\ cacheKV' = invalidateCache(cacheKV, FetchedRepo)
    /\ gh' = [gh EXCEPT !.invalidated = @ + 1]
    /\ UNCHANGED <<bucket, releases, ledger, appEnv, queue, wk, snap, ota, cache, hook, serve, projectTable, calc, now, fl>>

\* Time passes.
Tick ==
    /\ \E t \in Instants : t > now /\ now' = t
    /\ UNCHANGED <<bucket, releases, ledger, appEnv, queue, wk, snap, ota, cache, hook, serve, projectTable, calc, cacheKV, gh, fl>>

\* KV drops an entry whose expirationTtl has passed.
KvExpire ==
    /\ \E repo \in Repositories :
         /\ cacheKV[repo] # NoRelease
         /\ now - cacheKV[repo].cached_at >= CACHE_TTL_SECONDS * 1000
         /\ cacheKV' = [cacheKV EXCEPT ![repo] = NoRelease]
    /\ UNCHANGED <<bucket, releases, ledger, appEnv, queue, wk, snap, ota, cache, hook, serve, projectTable, calc, now, gh, fl>>

NextCache ==
    \/ \E c \in FetchCallers :
         FlStart(c) \/ FlGetCached(c) \/ FlFetch(c) \/ FlStore(c) \/ FlReturn(c)
    \/ Publish
    \/ Invalidate
    \/ Tick
    \/ KvExpire

SpecCache == InitOTA /\ [][NextCache]_vars

\* ------------------------------------------------------------------------
\* normalizeChipFamily, called on drawn chip family names
\* ------------------------------------------------------------------------

\* A chip family name is a stem followed by an ending.
ChipStems ==
    {"esp32", "ESP32", "Esp32", "eSP32", "esp3", "xesp32", "esp32-", "esp8266", "ESP32_", "xyz"}

ChipEndings ==
    {"", "c3", "C3", "s3", "S2", "h2", "c", "3", "c33", "cc3", "3c", "-C3", " c3", "c3 "}

\* normalizeChipFamily applied once, and again to its own result.
NormalizeChip ==
    /\ calc = NoCall
    /\ \E stem \in ChipStems, ending \in ChipEndings :
         LET chipFamily == stem \o ending
             once == normalizeChipFamily(chipFamily)
         IN  calc' = [op |-> "normalizeChipFamily", chipFamily |-> chipFamily,
                      once |-> once, twice |-> normalizeChipFamily(once)]
    /\ UNCHANGED sysVars

NextChip == NormalizeChip

SpecChip == InitOTA /\ [][NextChip]_vars

\* ------------------------------------------------------------------------
\* verifyGitHubSignature, step by step
\* ------------------------------------------------------------------------

\* charCodeAt on the characters of a hex digest.
CharCode(c) ==
    CASE c \in Digits -> 48 + DigitValue(c)
      [] c = "a" -> 97 [] c = "b" -> 98 [] c = "c" -> 99
      [] c = "d" -> 100 [] c = "e" -> 101 [] c = "f" -> 102
      [] c = "A" -> 65 [] c = "B" -> 66 [] c = "C" -> 67
      [] c = "D" -> 68 [] c = "E" -> 69 [] c = "F" -> 70

\* x ^ y
RECURSIVE BitXor(_, _)
BitXor(x, y) ==
    IF x = 0 /\ y = 0 THEN 0
    ELSE 2 * BitXor(x \div 2, y \div 2) + (IF x % 2 = y % 2 THEN 0 ELSE 1)

\* x | y
RECURSIVE BitOr(_, _)
BitOr(x, y) ==
    IF x = 0 /\ y = 0 THEN 0
    ELSE 2 * BitOr(x \div 2, y \div 2) + (IF x % 2 = 1 \/ y % 2 = 1 THEN 1 ELSE 0)

\* The loop that returns at the first position where the two differ.
RECURSIVE CompareChars_EarlyExit(_, _, _, _)
CompareChars_EarlyExit(a, b, i, run) ==
    IF i > Len(a) \/ run.result # 0 THEN run
    ELSE CompareChars_EarlyExit(a, b, i + 1,
             [result |-> BitOr(run.result, BitXor(CharCode(Ch(a, i)), CharCode(Ch(b, i)))),
              comparisons |-> run.comparisons + 1])

\* The loop of timingSafeEqual from position i on: result |= a[i] ^ b[i],
\* with the number of positions it has compared.
RECURSIVE CompareChars(_, _, _, _)
CompareChars(a, b, i, run) ==
    IF i > Len(a) THEN run
    ELSE CompareChars(a, b, i + 1,
             [result |-> BitOr(run.result, BitXor(CharCode(Ch(a, i)), CharCode(Ch(b, i)))),
              comparisons |-> run.comparisons + 1])

\* crypto.ts timingSafeEqual with the comparisons it makes.
timingSafeEqualRun(a, b) ==
    IF Len(a) # Len(b) THEN [equal |-> FALSE, comparisons |-> 0]
    ELSE LET run == CompareChars(a, b, 1, [result |-> 0, comparisons |-> 0])
         IN  [equal |-> run.result = 0, comparisons |-> run.comparisons]

\* crypto.ts verifyGitHubSignature with the HMACs it computes and the
\* comparisons it makes.
verifyGitHubSignatureRun(payload, signature, secret) ==
    IF ~StartsWith(signature, "sha256=")
    THEN [result |-> FALSE, hmacs |-> 0, comparisons |-> 0]
    ELSE LET expectedSignature == SubSeq(signature, 8, Len(signature))
             computedSignature == HmacSha256Hex(secret, payload)
             run == timingSafeEqualRun(computedSignature, expectedSignature)
         IN  [result |-> run.equal, hmacs |-> 1, comparisons |-> run.comparisons]

\* The digest with another hex digit at position i.
FlipAt(digest, i) ==
    SubSeq(digest, 1, i - 1) \o (IF Ch(digest, i) = "0" THEN "1" ELSE "0")
                             \o SubSeq(digest, i + 1, Len(digest))

\* A delivery's signature is verified.
VerifySignature ==
    /\ calc = NoCall
    /\ \E payload \in Payloads :
         LET good == HmacSha256Hex(WebhookSecret, payload)
         IN  \E signature \in SignatureHeaders(payload)
                                \cup {"sha256=" \o FlipAt(good, i) : i \in 1..Len(good)} :
               calc' = [op |-> "verifyGitHubSignature", payload |-> payload,
                        signature |-> signature,
                        run |-> verifyGitHubSignatureRun(payload, signature, WebhookSecret)]
    /\ UNCHANGED sysVars

NextSignature == VerifySignature

SpecSignature == InitOTA /\ [][NextSignature]_vars

\* ------------------------------------------------------------------------
\* Ingestion: what the stores hold for a task
\* ------------------------------------------------------------------------

TaskVariant(t) == VariantOf(Tasks[t].manifestFilename)

TaskKey(t, filename) ==
    buildFirmwareKey(Tasks[t].projectSlug, TaskVariant(t), Tasks[t].version, filename)

IsStored(key) == key \in DOMAIN bucket

ReleaseRows(t) ==
    {i \in DOMAIN releases : /\ releases[i].project_id = Tasks[t].projectId
                             /\ releases[i].variant = TaskVariant(t)
                             /\ releases[i].version = Tasks[t].version}

LedgerRows(id) == {i \in DOMAIN ledger : ledger[i].asset_id = id}

\* The part paths of the manifest stored under the task's prefix.
StoredManifestPaths(t) ==
    LET m == bucket[TaskKey(t, "manifest.json")].data.json
    IN  {ReferencedFiles(m)[i] : i \in DOMAIN ReferencedFiles(m)}

ArtifactsStored(t) ==
    /\ IsStored(TaskKey(t, "manifest.json"))
    /\ \A f \in StoredManifestPaths(t) : IsStored(TaskKey(t, f))

AllIdle == \A w \in Workers : wk[w].pc = "idle"

\* The buckets one complete run of task t leaves when it starts from the empty
\* bucket: the manifest, any of the referenced files the release holds (a fetch
\* that is not ok is skipped), and the ELF or not.
SingleRunBuckets(t) ==
    LET m == NormalizeManifest(UpstreamManifest(t))
        refs == {ReferencedFiles(m)[i] : i \in DOMAIN ReferencedFiles(m)} \cap Tasks[t].assets
        elf == {TaskVariant(t) \o ".elf"} \cap Tasks[t].assets
        obj(f) == IF f = "manifest.json"
                  THEN [data |-> [json |-> m], contentType |-> "application/json"]
                  ELSE [data |-> UpstreamBytes(f), contentType |-> "application/octet-stream"]
    IN  {[k \in {TaskKey(t, f) : f \in {"manifest.json"} \cup fs} |->
            obj(CHOOSE f \in {"manifest.json"} \cup fs : TaskKey(t, f) = k)]
         : fs \in SUBSET (refs \cup elf)}

\* The errors the environment injects into a run (upstream, R2, D1), and the one
\* the task itself carries (a tag that is no semver).
EnvironmentErrors ==
    {"Failed to get installation token", "Failed to fetch manifest", "SyntaxError",
     "R2 put failed", "D1 error", "Invalid semver"}

\* ------------------------------------------------------------------------
\* Claims
\* ------------------------------------------------------------------------

\* C1: when a run of a task returns and the next run is of the same task, that
\* second run returns without raising, the bucket has exactly the keys and
\* contents the first run left, and there is exactly one release row for the
\* task's (projectId, variant, version) and one ledger row for its asset id.
C1_SecondRunChangesNothing ==
    \A w \in SeqWorkers :
        (wk[w].pc \in {"done", "failed"} /\ snap.task = wk[w].task) =>
            /\ wk[w].pc = "done"
            /\ bucket = snap.bucket
            /\ Cardinality(ReleaseRows(wk[w].task)) = 1
            /\ Cardinality(LedgerRows(wk[w].task)) = 1

C1_Witness ==
    \E w \in SeqWorkers :
        /\ wk[w].pc = "done"
        /\ snap.task = wk[w].task
        /\ IsStored(TaskKey(wk[w].task, "WIDGET_app.bin"))

\* C2: in every state no run is in the middle of, a release row for a task's
\* (project, variant, version) exists if and only if the canonical manifest and
\* every part path that manifest references are stored under the task's prefix.
C2_ReleaseRowIffArtifactsStored ==
    AllIdle => \A t \in TaskIds : (ReleaseRows(t) # {}) <=> ArtifactsStored(t)

\* C2, the "only if" half alone: a release row exists only if the canonical
\* manifest and every part path it references are stored.
C2_ReleaseRowOnlyIfArtifactsStored ==
    \A t \in TaskIds : (ReleaseRows(t) # {}) => ArtifactsStored(t)

\* C3: two consumers running the same message: a run fails only with an error
\* of the environment or of the task, never with one raised by the other run's
\* writes; and once both have returned, with no other message in the queue,
\* there is one release row, one ledger row, and the bucket is one a single run
\* leaves.
C3_DuplicateDeliveryIsSafe ==
    \A w1, w2 \in Workers :
        (w1 # w2 /\ wk[w1].task # NoTask /\ wk[w1].task = wk[w2].task) =>
            /\ wk[w1].pc = "failed" => wk[w1].threw \in EnvironmentErrors
            /\ (queue = {wk[w1].task} /\ wk[w1].pc = "done" /\ wk[w2].pc = "done") =>
                  /\ Cardinality(ReleaseRows(wk[w1].task)) = 1
                  /\ Cardinality(LedgerRows(wk[w1].task)) = 1
                  /\ bucket \in SingleRunBuckets(wk[w1].task)

\* Both runs passed the ledger gate and both went through every write.
C3_Witness ==
    \E w1, w2 \in Workers :
        /\ w1 # w2
        /\ wk[w1].task = wk[w2].task
        /\ queue = {wk[w1].task}
        /\ wk[w1].pc = "done" /\ wk[w2].pc = "done"
        /\ wk[w1].stored # <<>> /\ wk[w2].stored # <<>>

C5_FailureLeavesNoLedgerRow ==
    \A w \in SeqWorkers :
        wk[w].pc = "failed" =>
            /\ wk[w].threw # ""
            /\ getProcessedAssetIds(ledger, {Tasks[wk[w].task].manifestAssetId}) = {}

\* A run raised after it had stored the manifest.
C5_Witness ==
    \E w \in SeqWorkers :
        /\ wk[w].pc = "failed"
        /\ IsStored(TaskKey(wk[w].task, "manifest.json"))

\* ------------------------------------------------------------------------
\* OTA check: what a response says about the request it answers
\* ------------------------------------------------------------------------

\* (major, minor, patch) order on triples, component by component.
TripleLess(a, b) ==
    \/ a.major < b.major
    \/ a.major = b.major /\ a.minor < b.minor
    \/ a.major = b.major /\ a.minor = b.minor /\ a.patch < b.patch

OtaResponded == ota.pc = "responded"

\* The handler got a latest release with a parseable tag: it compared.
OtaCompared ==
    /\ OtaResponded
    /\ ota.release # NoRelease
    /\ parseSemver(ota.release.tag_name) # Null

SaysUpdateAvailable(body) ==
    "update_available" \in DOMAIN body /\ body.update_available

OtaManifestName == ManifestName(FindProject(ota.project), ota.variant)

\* The latest release has no manifest asset for the requested variant.
NoManifestForVariant == FindAsset(ota.release.assets, OtaManifestName) = NoAsset

\* The manifest of the requested variant has no first build with a part
\* matching the project slug.
NoMatchingPart ==
    LET manifestAsset == FindAsset(ota.release.assets, OtaManifestName)
    IN  /\ manifestAsset # NoAsset
        /\ AppBinaryUrl(ota.project, manifestAsset,
                        GitHubManifest(manifestAsset.browser_download_url)) = ""

\* C6: a check that reached the comparison answers update_available:true only
\* when the device triple is strictly less than the latest triple, and answers
\* {error:false, update_available:false} when it is equal or greater.
C6_UpdateOnlyWhenStrictlyOlder ==
    OtaCompared =>
        LET current == parseSemver(ota.version)
            latest == parseSemver(ota.release.tag_name)
        IN  /\ SaysUpdateAvailable(ota.resp.body) => TripleLess(current, latest)
            /\ ~TripleLess(current, latest) => ota.resp = UpToDate

\* A device on 9.0.0 is offered 10.0.0.
C6_Witness ==
    /\ OtaCompared
    /\ ota.version = "9.0.0"
    /\ ota.release.tag_name = "10.0.0"
    /\ SaysUpdateAvailable(ota.resp.body)

C8_UnknownProjectNotFound ==
    (OtaResponded /\ isSafeIdentifier(ota.project, DefaultMaxLen) /\ ota.version # ""
        /\ FindProject(ota.project) = Null)
        => ota.resp.status = 404

\* C8: a check whose project header is a safe identifier naming no project, and
\* whose reported device version is not 0.0.1 after trimming, is answered 404
\* "Project ... not found", parseable version or not.
C8_UnknownSafeProjectNotFoundUnless001 ==
    (OtaResponded /\ isSafeIdentifier(ota.project, DefaultMaxLen)
        /\ FindProject(ota.project) = Null
        /\ ota.version # "" /\ Trim(ota.version) # "0.0.1")
        => ota.resp = jsonError(404, "Project " \o ota.project \o " not found")

\* An unknown project with an unparseable device version gets 404.
C8_Witness ==
    /\ OtaResponded
    /\ ota.project = "nope-fw"
    /\ ota.version = "abc"
    /\ ota.resp.status = 404

\* C9: whenever the check answers update_available:true, ota_url ends in the
\* store key firmware/{project}/{variant}/{latest version}/{path} of the
\* matched part, and the artifact store holds an object under that key.
C9_OtaUrlIsStoredObject ==
    (OtaResponded /\ SaysUpdateAvailable(ota.resp.body)) =>
        LET tag == ota.release.tag_name
            version == IF StartsWith(tag, "v") THEN Tail(tag) ELSE tag
            manifest == GitHubManifest(ota.manifestAsset.browser_download_url)
            appPart == FindAppPart(ota.project, manifest.builds[1].parts)
            key == buildFirmwareKey(ota.project, ota.variant, version, appPart.path)
        IN  /\ EndsWith(ota.resp.body.ota_url, "/" \o key)
            /\ IsStored(key)

\* C10 as stated: when the latest release has no manifest for the variant, or
\* the manifest's first build has no matching part, the answer is an error
\* payload, never {error:false, update_available:false}.
C10_FailedLookupIsErrorPayload ==
    (OtaCompared /\ (NoManifestForVariant \/ NoMatchingPart)) =>
        /\ ota.resp.body.error
        /\ ~SaysUpdateAvailable(ota.resp.body)
        /\ "error_message" \in DOMAIN ota.resp.body

\* C10: when the device triple is strictly less than the latest triple and the
\* latest release has no manifest for the variant, the answer is the error
\* payload "No manifest found for ..."; when the manifest was loaded and its
\* first build has no matching part, it is the error payload "No app binary
\* found in manifest for ..."; in both cases error is true and update_available
\* false.
C10_FailedLookupIsErrorPayloadWhenOlder ==
    (OtaCompared /\ TripleLess(parseSemver(ota.version), parseSemver(ota.release.tag_name))) =>
        /\ NoManifestForVariant =>
              ota.resp = LookupError(502, "No manifest found for " \o OtaManifestName
                                          \o " in release " \o ota.release.tag_name)
        /\ (NoMatchingPart /\ ota.loaded) =>
              ota.resp = LookupError(502, "No app binary found in manifest for "
                                          \o OtaManifestName)
        /\ (NoManifestForVariant \/ NoMatchingPart) =>
              /\ ota.resp.body.error
              /\ ~SaysUpdateAvailable(ota.resp.body)
              /\ ota.resp.body.error_message # ""

\* The manifest was loaded and only its second build has the application part.
C10_Witness ==
    /\ OtaCompared
    /\ ota.project = "MATRX-fw"
    /\ ota.variant = "MAX"
    /\ ota.loaded
    /\ NoMatchingPart
    /\ ota.resp.body.error

\* ------------------------------------------------------------------------
\* Version parsing and comparison: what a call returns
\* ------------------------------------------------------------------------

\* A component that is a non-negative integer: a non-empty run of digits.
IsIntegerComponent(c) == c # "" /\ AllDigits(c)

\* The triple of a version whose components are all non-negative integers, a
\* missing minor or patch being 0; failure when a component is not.
TripleOfComponents(components) ==
    IF \A i \in DOMAIN components : IsIntegerComponent(components[i])
    THEN [major |-> DecimalValue(components[1]),
          minor |-> IF Len(components) >= 2 THEN DecimalValue(components[2]) ELSE 0,
          patch |-> IF Len(components) >= 3 THEN DecimalValue(components[3]) ELSE 0]
    ELSE Null

\* C11: parseSemver and parseSemverComponents agree, drop the leading v and the
\* suffix from the first + or -, default a missing minor or patch to 0, and
\* fail for every input with a component that is non-numeric, empty or carries
\* a minus sign.
C11_ParseIsTripleOrFailure ==
    calc.op = "parseSemver" =>
        /\ calc.result = TripleOfComponents(calc.components)
        /\ calc.dbResult = calc.result

\* C12: for triples a < b in (major, minor, patch) order compareSemver(a, b)
\* is negative and compareSemver(b, a) positive, and compareSemver(a, a) is 0.
C12_CompareFollowsTripleOrder ==
    calc.op = "compareSemver" =>
        /\ calc.aa = 0
        /\ TripleLess(calc.a, calc.b) => calc.ab < 0 /\ calc.ba > 0

\* (9,0,0) compared with (10,0,0).
C12_Witness ==
    /\ calc.op = "compareSemver"
    /\ calc.a = [major |-> 9, minor |-> 0, patch |-> 0]
    /\ calc.b = [major |-> 10, minor |-> 0, patch |-> 0]
    /\ calc.ab < 0 /\ calc.ba > 0

\* The rows of the table calc holds that belong to the queried (project, variant).
QueriedRows ==
    {i \in DOMAIN calc.rows :
        /\ \E p \in ProjectRows : p.id = calc.rows[i].project_id /\ p.slug = calc.projectSlug
        /\ calc.rows[i].variant = calc.variant}

\* C13: getLatestVersion returns null when no row exists for (project,
\* variant), otherwise the version of a row of that (project, variant) whose
\* triple no other row of the same (project, variant) exceeds; the rows of
\* other projects and variants do not change what it may return.
C13_LatestIsGreatestTriple ==
    calc.op = "getLatestVersion" =>
        /\ QueriedRows = {} => calc.result = Null
        /\ QueriedRows # {} =>
              /\ calc.result # Null
              /\ \E i \in QueriedRows :
                    /\ calc.rows[i].version = calc.result.version
                    /\ \A j \in QueriedRows : ~TripleLess(calc.rows[i], calc.rows[j])
        /\ calc.result \in getLatestVersion(ProjectRows,
                              SelectSeq(calc.rows, LAMBDA r :
                                  \E i \in QueriedRows : calc.rows[i] = r),
                              calc.projectSlug, calc.variant)

\* 10.0.0 is returned from a table that also holds 9.0.0, and 12.0.0 for
\* another project.
C13_Witness ==
    /\ calc.op = "getLatestVersion"
    /\ calc.projectSlug = "widget-fw" /\ calc.variant = "WIDGET"
    /\ \E i, j, k \in DOMAIN calc.rows :
          /\ calc.rows[i].version = "9.0.0"
          /\ calc.rows[j].version = "10.0.0"
          /\ calc.rows[k].version = "12.0.0"
    /\ calc.result = [version |-> "10.0.0"]

\* ------------------------------------------------------------------------
\* Webhook: what a response says about the delivery it answers
\* ------------------------------------------------------------------------

HookResponded == hook.pc = "responded"

\* The header is sha256= followed by the hex HMAC-SHA256 of the body under the
\* shared secret.
IsGoodSignature(signature, payload) ==
    signature = "sha256=" \o HmacSha256Hex(WebhookSecret, payload)

\* The stores are as the delivery found them.
StoresAsSeen ==
    /\ bucket = hook.seen.bucket
    /\ cache = hook.seen.cache
    /\ releases = hook.seen.releases
    /\ ledger = hook.seen.ledger

\* C14: a delivery whose signature header is missing or is not sha256= followed
\* by the hex HMAC-SHA256 of the body under the shared secret is answered 401
\* and leaves the cache, the bucket, the release rows and the ledger as they
\* were; and it is never taken past the signature check.
C14_BadSignatureIs401AndInert ==
    (hook.pc # "idle" /\ ~IsGoodSignature(hook.signature, hook.payload)) =>
        /\ HookResponded
        /\ hook.resp.status = 401
        /\ ~hook.accepted
        /\ StoresAsSeen

\* A published release event signed for another body is refused while the
\* cache holds the repository's latest release.
C14_Witness ==
    /\ HookResponded
    /\ hook.payload = "published-matrx"
    /\ hook.signature = "sha256=" \o HmacSha256Hex(WebhookSecret, "edited-matrx")
    /\ hook.resp = jsonError(401, "Invalid signature")
    /\ cache["koiosdigital/MATRX-fw"] # NoRelease

\* C15: a correctly signed delivery whose body parses passes the action filter
\* exactly when its action is published or edited and its release is non-null;
\* every other one is answered 200 and leaves the stores as they were.
C15_ProcessedIffPublishedOrEdited ==
    (HookResponded /\ IsGoodSignature(hook.signature, hook.payload)
        /\ WebhookJson(hook.payload).ok) =>
        LET json == WebhookJson(hook.payload)
            wanted == json.action \in {"published", "edited"} /\ json.release # NoRelease
        IN  /\ hook.accepted <=> wanted
            /\ ~wanted => hook.resp.status = 200 /\ StoresAsSeen

\* ------------------------------------------------------------------------
\* Coredump decoder: what a call was given and what it gave back
\* ------------------------------------------------------------------------
CoredumpCalled == calc.op = "parseCoredump"

CoredumpSucceeded == CoredumpCalled /\ calc.call.ended /\ calc.call.result.success

CoredumpRejected ==
    /\ calc.call.ended
    /\ ~calc.call.result.success
    /\ calc.call.result.error # ""

ElfHeaderSize == Len(ElfHeader(127, 1, TRUE, Zero, 0, 0))

WrongMagicOrClass(data) == ~HasElfMagic(data) \/ Len(data) < 5 \/ data[5] # 1

\* The program header table, or the segment of a PT_NOTE entry, reaches
\* outside the buffer of a dump whose ELF header is complete.
RefersOutside(data) ==
    LET le      == data[6] = 1
        phoff   == Num(getUint32(data, 28, le))
        entsize == getUint16(data, 42, le)
        phnum   == getUint16(data, 44, le)
        start(i) == phoff + i * entsize
    IN  /\ Len(data) >= ElfHeaderSize
        /\ \/ \E i \in 0..(phnum - 1) : start(i) + 32 > Len(data)
           \/ \E i \in 0..(phnum - 1) :
                /\ getUint32(data, start(i), le) = PT_NOTE
                /\ \/ Num(getUint32(data, start(i) + 4, le)) >= Len(data)
                   \/ Num(getUint32(data, start(i) + 4, le))
                        + Num(getUint32(data, start(i) + 16, le)) > Len(data)

\* C16: parseCoredump ends and never raises; an input that is not base64, is
\* shorter than an ELF header, has a wrong magic or a class other than 32-bit,
\* or whose program header or note offsets lie outside the buffer, gets
\* {success: false, error} with a non-empty error; a wrong magic or class is
\* rejected before any program header is read.
C16_MalformedInputIsRejected ==
    CoredumpCalled =>
        LET data == calc.decoded.bytes
        IN  /\ calc.call.ended
            /\ ~calc.decoded.ok => CoredumpRejected
            /\ (calc.decoded.ok /\ Len(data) < ElfHeaderSize) => CoredumpRejected
            /\ (calc.decoded.ok /\ WrongMagicOrClass(data)) =>
                    CoredumpRejected /\ calc.elf.headersRead = 0
            /\ (calc.decoded.ok /\ ~WrongMagicOrClass(data) /\ RefersOutside(data)) =>
                    CoredumpRejected

\* C17: when the decoded registers contain the program counter, the backtrace
\* is not empty and starts with the program counter, whatever A0 and A1 are.
C17_BacktraceStartsWithPc ==
    (CoredumpSucceeded /\ Has(calc.call.result.crash_info.registers, "PC")) =>
        /\ calc.call.result.backtrace # <<>>
        /\ calc.call.result.backtrace[1] = calc.call.result.crash_info.registers["PC"]

\* C18: the backtrace has at most two entries; after the program counter it
\* holds (A0 AND 0x3FFFFFFF) OR 0x40000000, exactly when that derived address
\* lies in instruction RAM, the flash instruction cache or the flash data
\* window.
C18_ReturnEntryIffDerivedAddressIsCode ==
    CoredumpSucceeded =>
        LET registers == calc.elf.parsed.registers
            backtrace == calc.call.result.backtrace
            pcEntries == IF Has(registers, "PC") THEN 1 ELSE 0
            derived   == ReturnAddress(registers["A0"])
            expected  == Has(registers, "A0") /\ isValidCodeAddress(derived)
        IN  /\ Len(backtrace) <= 2
            /\ expected <=> \E i \in DOMAIN backtrace : i > pcEntries
            /\ \A i \in DOMAIN backtrace :
                    i > pcEntries => i = pcEntries + 1 /\ backtrace[i] = FormatAddress(derived)

HexValue(s) ==
    LET digit(c) == (CHOOSE i \in 1..Len(HexDigits) : Ch(HexDigits, i) = c) - 1
    IN  ((digit(Ch(s, 1)) * 16 + digit(Ch(s, 2))) * 16 + digit(Ch(s, 3))) * 16 + digit(Ch(s, 4))

\* s is 0x and eight lower-case hexadecimal digits whose value is the word w.
IsHex8Of(s, w) ==
    /\ Len(s) = 10
    /\ SubSeq(s, 1, 2) = "0x"
    /\ \A i \in 3..10 : \E j \in 1..Len(HexDigits) : Ch(s, i) = Ch(HexDigits, j)
    /\ HexValue(SubSeq(s, 3, 6)) = w[1]
    /\ HexValue(SubSeq(s, 7, 10)) = w[2]

RECURSIVE DecimalWord(_)
DecimalWord(s) ==
    IF s = "" THEN Zero
    ELSE LET w  == DecimalWord(SubSeq(s, 1, Len(s) - 1))
             lo == w[2] * 10 + DigitValue(Ch(s, Len(s)))
         IN  Word(w[1] * 10 + (lo \div 65536), lo % 65536)

\* s is `Unknown (<code>)` with the decimal digits of the code.
IsUnknownCause(s, code) ==
    /\ StartsWith(s, "Unknown (")
    /\ EndsWith(s, ")")
    /\ LET digits == SubSeq(s, 10, Len(s) - 1)
       IN  /\ digits # ""
           /\ AllDigits(digits)
           /\ (Len(digits) > 1 => Ch(digits, 1) # "0")
           /\ DecimalWord(digits) = code

\* C19: in a successful result every register, the pc member and every
\* backtrace entry is 0x and exactly eight lower-case hexadecimal digits of the
\* 32-bit value; exception_cause is the table's name of the EXCCAUSE code
\* when the table has the code and `Unknown (<code>)` when it has not.
C19_ValuesAreEightHexDigits ==
    CoredumpSucceeded =>
        LET parsed == calc.elf.parsed
            info   == calc.call.result.crash_info
            trace  == calc.call.result.backtrace
            code   == parsed.registers["EXCCAUSE"]
        IN  /\ DOMAIN info.registers = DOMAIN parsed.registers
            /\ \A name \in DOMAIN info.registers :
                    IsHex8Of(info.registers[name], parsed.registers[name])
            /\ Has(info, "pc") <=> Has(parsed.registers, "PC")
            /\ Has(info, "pc") => IsHex8Of(info.pc, parsed.registers["PC"])
            /\ Len(trace) = Len(parsed.backtraceAddresses)
            /\ \A i \in DOMAIN trace : IsHex8Of(trace[i], parsed.backtraceAddresses[i])
            /\ Has(info, "exception_cause") <=> Has(parsed.registers, "EXCCAUSE")
            /\ Has(info, "exception_cause") =>
                    IF code[1] = 0 /\ code[2] \in DOMAIN EXCEPTION_CAUSES
                    THEN info.exception_cause = EXCEPTION_CAUSES[code[2]]
                    ELSE IsUnknownCause(info.exception_cause, code)

C19_Witness ==
    /\ CoredumpSucceeded
    /\ Len(calc.call.result.backtrace) = 2
    /\ Has(calc.call.result.crash_info, "pc")
    /\ Has(calc.call.result.crash_info, "exception_cause")
    /\ calc.call.result.crash_info.pc = "0x400d1234"
    /\ calc.call.result.crash_info.registers["PS"] = "0x00000002"
    /\ calc.call.result.crash_info.registers["EXCCAUSE"] = "0xffffffff"
    /\ calc.call.result.crash_info.exception_cause = "Unknown (4294967295)"

\* ------------------------------------------------------------------------
\* The manifest of a variant: what was served
\* ------------------------------------------------------------------------
SchemeChars == LowerLetters \cup UpperLetters \cup Digits \cup {"+", ".", "-"}

\* The path starts with a scheme: a letter, scheme characters, "://".
StartsWithScheme(path) ==
    \E i \in 2..(Len(path) - 2) :
        /\ SubSeq(path, i, i + 2) = "://"
        /\ Ch(path, 1) \in LowerLetters \cup UpperLetters
        /\ \A j \in 1..(i - 1) : Ch(path, j) \in SchemeChars

ManifestServed == serve.pc = "responded" /\ serve.resp.status = 200

\* C20: the served manifest is the fetched manifest with every part path p
\* replaced by base + p when p does not start with a scheme and left as it is
\* when p is absolute; serving writes nothing to the bucket, whose manifests
\* keep their relative paths.
C20_ServedPathsAreAbsoluteOnce ==
    ManifestServed =>
        LET base   == ReplaceFirst(serve.manifestAsset.browser_download_url,
                                   serve.manifestAsset.name, "")
            served == serve.resp.body
        IN  /\ DOMAIN served.builds = DOMAIN serve.fetched.builds
            /\ \A i \in DOMAIN served.builds :
                 /\ DOMAIN served.builds[i].parts = DOMAIN serve.fetched.builds[i].parts
                 /\ \A j \in DOMAIN served.builds[i].parts :
                      LET p == serve.fetched.builds[i].parts[j].path
                      IN  served.builds[i].parts[j].path =
                            IF p = "" \/ StartsWithScheme(p) THEN p ELSE base \o p
            /\ bucket = serve.seen
            /\ bucket \in IngestedBuckets

\* ------------------------------------------------------------------------
\* The projects table: what an upsert did
\* ------------------------------------------------------------------------
ProjectUpserted == calc.op = "upsertProject"

RowsOfRepository(rows, repositorySlug) ==
    {i \in DOMAIN rows : rows[i].repository_slug = repositorySlug}

\* C21: upsertProject succeeds for every repository full name and returns the
\* one row of that repository, whose slug is the last path segment of the full
\* name; for a repository that has a row it keeps id, slug and repository_slug
\* and changes only name and updated_at; no project row is ever removed.
C21_UpsertReturnsTheRepositoryRow ==
    ProjectUpserted =>
        LET rows == projectTable.rows
            own  == RowsOfRepository(rows, calc.repositorySlug)
            old  == RowsOfRepository(calc.before, calc.repositorySlug)
        IN  /\ calc.raised = ""
            /\ Cardinality(own) = 1
            /\ \A i \in own :
                 /\ calc.project = rows[i]
                 /\ rows[i].slug = SlugOfRepository(calc.repositorySlug)
                 /\ rows[i].name = calc.name
            /\ \A i \in old :
                 /\ i \in own
                 /\ rows[i].id = calc.before[i].id
                 /\ rows[i].slug = calc.before[i].slug
                 /\ rows[i].created_at = calc.before[i].created_at
            /\ \A i \in DOMAIN calc.before :
                 /\ i \in DOMAIN rows
                 /\ i \notin old => rows[i] = calc.before[i]

\* C22: a run of processManifest that finds manifestAssetId in the ledger at
\* its start returns {stored: [], errors: []} in that step, without a token, a
\* fetched manifest, a blob write, a release insert or a ledger write.
C22_ProcessedTaskIsSkipped ==
    [][\A w \in Workers :
          (wk[w].pc = "check" /\ wk'[w] # wk[w] /\ LedgerRows(wk[w].task) # {}) =>
              /\ wk'[w] = [Idle EXCEPT !.pc = "done", !.task = wk[w].task]
              /\ bucket' = bucket
              /\ releases' = releases
              /\ ledger' = ledger]_vars

C22_Witness ==
    \E w \in Workers :
        /\ wk[w] = [Idle EXCEPT !.pc = "done", !.task = wk[w].task]
        /\ LedgerRows(wk[w].task) # {}

\* C23: after any sequence of markAssetProcessed calls the ledger holds
\* exactly one row per asset id ever marked; a call for an id that has a row
\* raises no error and leaves the row, its projectId included, as it was; no
\* call removes or changes a row.
C23_OneLedgerRowPerMarkedId ==
    calc.op = "markAssetProcessed" =>
        /\ calc.threw = ""
        /\ {ledger[i].asset_id : i \in DOMAIN ledger} = calc.marked
        /\ \A i, j \in DOMAIN ledger : ledger[i].asset_id = ledger[j].asset_id => i = j
        /\ \A i \in DOMAIN calc.before : i \in DOMAIN ledger /\ ledger[i] = calc.before[i]

C23_Witness ==
    /\ calc.op = "markAssetProcessed"
    /\ calc.calls = MaxMarks
    /\ \E i \in DOMAIN calc.before :
         /\ calc.before[i].asset_id = calc.assetId
         /\ calc.before[i].project_id # calc.projectId
         /\ ledger[i] = calc.before[i]

\* The rows of a release table for one (projectId, variant, version).
RowsOfTuple(rows, projectId, variant, version) ==
    {i \in DOMAIN rows : /\ rows[i].project_id = projectId
                         /\ rows[i].variant = variant
                         /\ rows[i].version = version}

\* C24: after any sequence of insertRelease calls there is at most one row
\* per (projectId, variant, version); an insert for a tuple that has a row
\* raises nothing and leaves the row's major, minor and patch as they were;
\* an insert with an unparseable version raises and adds no row.
C24_OneReleaseRowPerTuple ==
    calc.op = "insertRelease" =>
        /\ \A i, j \in DOMAIN releases :
             j \in RowsOfTuple(releases, releases[i].project_id, releases[i].variant,
                               releases[i].version) => i = j
        /\ RowsOfTuple(calc.before, calc.projectId, calc.variant, calc.version) # {} =>
             /\ calc.threw = ""
             /\ releases = calc.before
        /\ parseSemverComponents(calc.version) = Null =>
             /\ calc.threw # ""
             /\ releases = calc.before

C24_Witness ==
    /\ calc.op = "insertRelease"
    /\ calc.calls = MaxInserts
    /\ RowsOfTuple(calc.before, calc.projectId, calc.variant, calc.version) # {}
    /\ \E i \in DOMAIN releases : releases[i].version = "v1.2.3"
    /\ \E i \in DOMAIN releases : releases[i].version = "1.2.3"

\* The number of entries of a sequence equal to e.
Occurrences(q, e) == Cardinality({i \in DOMAIN q : q[i] = e})

\* The run is past the loop over the referenced files and has not raised.
PastFiles(w) == wk[w].pc \in {"release", "mark"} \/ (wk[w].pc = "done" /\ wk[w].marked)

\* C25: a run that is past the loop over the referenced files has recorded
\* exactly one error for each referenced path the release has no asset for and
\* has stored nothing for it; every other referenced path was fetched, and is
\* stored under the task's prefix unless its own fetch was answered not ok; a
\* run never raises with the missing-file error.
C25_MissingFileIsNotFatal ==
    \A w \in Workers :
        /\ wk[w].threw \in EnvironmentErrors \cup {""}
        /\ PastFiles(w) =>
             LET files == ReferencedFiles(NormalizeManifest(UpstreamManifest(wk[w].task)))
             IN  \A i \in DOMAIN files :
                   IF files[i] \notin Tasks[wk[w].task].assets
                   THEN /\ Occurrences(wk[w].errors,
                               "Referenced file not found in release: " \o files[i]) = 1
                        /\ Occurrences(wk[w].stored, files[i]) = 0
                   ELSE \/ /\ Occurrences(wk[w].stored, files[i]) = 1
                           /\ IsStored(TaskKey(wk[w].task, files[i]))
                        \/ Occurrences(wk[w].errors, "Failed to fetch " \o files[i]) = 1

\* A run returned that met the missing file first and stored the next one.
C25_Witness ==
    \E w \in Workers :
        /\ wk[w].pc = "done" /\ wk[w].marked
        /\ wk[w].errors = <<"Referenced file not found in release: missing.bin">>
        /\ wk[w].stored = <<"WIDGET_manifest.json", "WIDGET_app.bin">>
        /\ IsStored(TaskKey(wk[w].task, "WIDGET_app.bin"))

\* C26: with the app credentials set and an installation id in the message,
\* the step of a run that asks for the installation token either obtains one
\* or ends the run with the token error; the run has fetched and stored
\* nothing before that step, and the step writes no object, release row or
\* ledger row.
C26_FailedTokenExchangeEndsTheRun ==
    [][\A w \in Workers :
          (/\ wk[w].pc = "token"
           /\ wk'[w] # wk[w]
           /\ appEnv
           /\ Tasks[wk[w].task].installationId # 0) =>
              /\ wk[w].manifest = NoManifest /\ wk[w].stored = <<>>
              /\ bucket' = bucket /\ releases' = releases /\ ledger' = ledger
              /\ \/ wk'[w] = [wk[w] EXCEPT !.pc = "manifest", !.ghToken = "token"]
                 \/ wk'[w] = [Idle EXCEPT !.pc = "failed", !.task = wk[w].task,
                                          !.threw = "Failed to get installation token"]]_vars

C26_Witness ==
    \E w \in Workers :
        /\ wk[w].pc = "failed"
        /\ wk[w].threw = "Failed to get installation token"
        /\ appEnv
        /\ Tasks[wk[w].task].installationId # 0
        /\ ~IsStored(TaskKey(wk[w].task, "manifest.json"))
        /\ ReleaseRows(wk[w].task) = {}
        /\ LedgerRows(wk[w].task) = {}

\* A manifest filename without its _manifest.json suffix.
WithoutManifestSuffix(filename) ==
    IF EndsWith(filename, "_manifest.json")
    THEN SubSeq(filename, 1, Len(filename) - Len("_manifest.json"))
    ELSE filename

\* firmware/{projectSlug}/{variant}/{version}/{name} with the variant the
\* manifest filename minus its suffix.
ConventionKey(t, name) ==
    "firmware/" \o Tasks[t].projectSlug \o "/" \o WithoutManifestSuffix(Tasks[t].manifestFilename)
        \o "/" \o Tasks[t].version \o "/" \o name

\* C27: every object the runs have written has a key of the form
\* firmware/{projectSlug}/{variant}/{version}/{name}, the variant being the
\* manifest filename of the run's task minus its _manifest.json suffix and
\* the name manifest.json or the name of an asset of the release; a run that
\* has stored its manifest has stored it under the name manifest.json.
C27_KeysFollowTheConvention ==
    /\ \A k \in DOMAIN bucket :
          \E t \in TaskIds : \E name \in Tasks[t].assets \cup {"manifest.json"} :
              k = ConventionKey(t, name)
    /\ \A w \in Workers :
          wk[w].stored # <<>> => IsStored(ConventionKey(wk[w].task, "manifest.json"))

\* The object a run stores for the manifest of task t.
CanonicalManifest(t) ==
    [data |-> [json |-> NormalizeManifest(UpstreamManifest(t))],
     contentType |-> "application/json"]

\* C28: when a run has completed, the object at the manifest.json key of its
\* task is the canonicalized manifest of that task, also when the manifest
\* lists a part named manifest.json that the release has an asset for.
C28_ManifestKeyHoldsTheCanonicalManifest ==
    \A w \in Workers :
        (wk[w].pc = "done" /\ wk[w].marked) =>
            /\ IsStored(TaskKey(wk[w].task, "manifest.json"))
            /\ bucket[TaskKey(wk[w].task, "manifest.json")] = CanonicalManifest(wk[w].task)

\* The manifest asset of the release with the asset id.
ManifestAssetOf(release, id) ==
    CHOOSE a \in {release.assets[i] : i \in DOMAIN release.assets} : a.id = id

\* C30: after a run of syncReleaseToR2, every manifest asset id the run wrote
\* to the ledger has a release row for the run's project, the variant of that
\* manifest and the version of the release.
C30_MarkedManifestHasItsReleaseRow ==
    calc.op = "syncReleaseToR2" =>
        \A i \in DOMAIN ledger \ DOMAIN calc.before :
            \E j \in DOMAIN releases :
                /\ releases[j].project_id = calc.projectId
                /\ releases[j].variant =
                      ReplaceFirst(ManifestAssetOf(calc.release, ledger[i].asset_id).name,
                                   "_manifest.json", "")
                /\ releases[j].version = SyncVersion(calc.release)

\* C29: under fair redelivery and an environment whose fetches and writes
\* succeed in the end, every message of the queue, whatever version string it
\* carries, eventually has its manifest asset id in the ledger.
C29_EveryTaskIsEventuallyMarked ==
    \A t \in OrdinaryTaskIds : (t \in queue) ~> (LedgerRows(t) # {})

\* C31: the note loop of parseNoteSection ends for every content of a PT_NOTE
\* segment, so every call of parseCoredump returns a result.
C31_NoteLoopEnds ==
    CoredumpCalled => (calc.elf.kind # "loop" /\ calc.call.ended)

\* The dump has one program header entry, a PT_NOTE segment right after it, and
\* the segment is one process-status note with a short name that the reader
\* has gone through.
OneStatusNote(data) ==
    /\ calc.decoded.ok
    /\ calc.elf.kind = "return"
    /\ Len(data) >= 96
    /\ LET le == data[6] = 1
       IN  /\ getUint16(data, 44, le) = 1
           /\ getUint32(data, 28, le) = Word(0, 52)
           /\ getUint32(data, 52, le) = PT_NOTE
           /\ getUint32(data, 56, le) = Word(0, 84)
           /\ getUint32(data, 68, le) # Zero
           /\ getUint32(data, 92, le) = NT_PRSTATUS
           /\ getUint32(data, 84, le)[1] = 0 /\ getUint32(data, 84, le)[2] <= 8
           /\ getUint32(data, 88, le)[1] = 0
           /\ 12 + Align4(getUint32(data, 84, le)) + Align4(getUint32(data, 88, le))
                 >= Num(getUint32(data, 68, le))

MatchingParts(slug, parts) ==
    {i \in DOMAIN parts :
        /\ parts[i].path # ""
        /\ Includes(HyphensToUnderscores(ToLowerCase(parts[i].path)),
                    HyphensToUnderscores(ToLowerCase(slug)))}

\* C33: a check that has loaded the manifest offers the part of the first
\* build with the lowest index among the matching parts, and offers nothing
\* when the first build has no matching part, whatever later builds hold.
C33_FirstMatchingPartOfFirstBuild ==
    (OtaResponded /\ ota.loaded) =>
        LET manifest == GitHubManifest(ota.manifestAsset.browser_download_url)
            parts == IF Len(manifest.builds) > 0 THEN manifest.builds[1].parts ELSE <<>>
            hits == MatchingParts(FindProject(ota.project).slug, parts)
            baseUrl == ReplaceFirst(ota.manifestAsset.browser_download_url,
                                    ota.manifestAsset.name, "")
        IN  IF hits = {}
            THEN ~SaysUpdateAvailable(ota.resp.body)
            ELSE \E i \in hits :
                   /\ \A j \in hits : i <= j
                   /\ ota.resp = UpdateAvailable(baseUrl \o parts[i].path)

\* The first build has two matching parts and the offer is the first of them.
C33_Witness ==
    /\ OtaResponded /\ ota.loaded
    /\ LET builds == GitHubManifest(ota.manifestAsset.browser_download_url).builds
       IN  /\ Len(builds) > 0
           /\ Cardinality(MatchingParts(ota.project, builds[1].parts)) > 1
           /\ SaysUpdateAvailable(ota.resp.body)
           /\ EndsWith(ota.resp.body.ota_url, "/MATRX_fw.bin")

\* C34: after any sequence of insertRelease calls no two rows of one
\* (project, variant) carry the same (major, minor, patch), and getLatestVersion
\* has one possible result for every project and variant.
C34_OneRowPerTriple ==
    calc.op = "insertRelease" =>
        /\ \A i, j \in DOMAIN releases :
             (/\ releases[i].project_id = releases[j].project_id
              /\ releases[i].variant = releases[j].variant
              /\ releases[i].major = releases[j].major
              /\ releases[i].minor = releases[j].minor
              /\ releases[i].patch = releases[j].patch) => i = j
        /\ \A p \in ProjectRows, variant \in InsertedVariants :
             Cardinality(getLatestVersion(ProjectRows, releases, p.slug, variant)) = 1

\* C35: when the device version and the latest tag both name a (major, minor,
\* patch) triple, the earlier handler's loop reports an update exactly when the
\* device's triple is strictly less than the latest one.
C35_UpdateExactlyWhenOlder ==
    (/\ calc.op = "hasUpdate"
     /\ parseSemver(calc.currentVersion) # Null
     /\ parseSemver(calc.tagName) # Null) =>
        LET device == parseSemver(calc.currentVersion)
            latest == parseSemver(calc.tagName)
            older == \/ device.major < latest.major
                     \/ device.major = latest.major /\ device.minor < latest.minor
                     \/ /\ device.major = latest.major
                        /\ device.minor = latest.minor
                        /\ device.patch < latest.patch
        IN  calc.hasUpdate <=> older

\* C36: a fetchLatestRelease call that starts after the webhook handler has
\* invalidated the cache for a published release returns that release or a
\* later one, never a release GitHub served before it.
C36_NoStaleReleaseAfterInvalidation ==
    \A c \in FetchCallers :
       (fl[c].pc = "returned" /\ fl[c].result.ok) =>
           \E n \in fl[c].started..Len(PublishedTags) : fl[c].result.release = Published(n)

\* C37: getCachedRelease leaves the cache as it is, answers null for no entry
\* and for an entry cached more than 300 seconds ago and the entry's release
\* otherwise; the cache only ever receives, stamped with the current time, a
\* GitHub response that parsed, has a tag_name and has an array of assets.
C37_CacheAnswersWithinTtl ==
    [][/\ \A c \in FetchCallers :
            (fl[c].pc = "cache" /\ fl'[c].pc # "cache") =>
                /\ cacheKV' = cacheKV
                /\ LET entry == cacheKV[fl[c].repoSlug]
                   IN  IF entry = NoRelease
                          \/ now - entry.cached_at > CACHE_TTL_SECONDS * 1000
                       THEN fl'[c].pc = "fetch"
                       ELSE /\ fl'[c].pc = "returned"
                            /\ fl'[c].result.ok
                            /\ fl'[c].result.release = entry.release
       /\ \A repo \in Repositories :
            (cacheKV'[repo] # cacheKV[repo] /\ cacheKV'[repo] # NoRelease) =>
                \E c \in FetchCallers :
                   /\ fl[c].pc = "store" /\ fl'[c].pc = "returned"
                   /\ fl[c].repoSlug = repo
                   /\ fl[c].body.ok /\ fl[c].body.parses /\ fl[c].body.isArray
                   /\ fl[c].body.json.tag_name # ""
                   /\ cacheKV'[repo] = [release |-> fl[c].body.json, cached_at |-> now]
      ]_vars

\* A call found an entry cached more than 300 seconds earlier and went on to
\* GitHub.
C37_Witness ==
    \E c \in FetchCallers :
       /\ fl[c].pc = "fetch"
       /\ fl[c].seen # NoRelease
       /\ fl[c].at - fl[c].seen.cached_at > CACHE_TTL_SECONDS * 1000

\* The letter-and-digit suffixes the pattern admits after esp32.
ChipSuffixes == {l \o d : l \in LowerLetters \cup UpperLetters, d \in Digits}

\* C38: a name that is esp32 in any case gives ESP32; a name that is esp32 in
\* any case followed by one letter and one digit gives ESP32- and the two in
\* upper case; every other name is returned as it is; a second application
\* changes nothing.
C38_ChipFamilyIsCanonical ==
    /\ normalizeChipFamily("esp32c3") = "ESP32-C3"
    /\ normalizeChipFamily("esp32") = "ESP32"
    /\ normalizeChipFamily("xyz") = "xyz"
    /\ calc.op = "normalizeChipFamily" =>
         LET name == calc.chipFamily
             suffixes == {x \in ChipSuffixes :
                            /\ Len(name) = 7
                            /\ ToLowerCase(name) = "esp32" \o ToLowerCase(x)}
         IN  /\ calc.once =
                  IF Len(name) = 5 /\ ToLowerCase(name) = "esp32" THEN "ESP32"
                  ELSE IF suffixes # {}
                  THEN "ESP32-" \o ToUpperCase(CHOOSE x \in suffixes : TRUE)
                  ELSE name
             /\ calc.twice = calc.once

\* A mixed-case name with a suffix was put in canonical form.
C38_Witness ==
    /\ calc.op = "normalizeChipFamily"
    /\ calc.chipFamily = "Esp32s3"
    /\ calc.once = "ESP32-S3"
    /\ calc.twice = "ESP32-S3"

\* C39: a header without the sha256= prefix is refused with no HMAC computed;
\* a header digest as long as the computed digest costs one comparison per
\* character wherever the two differ; the answer is true exactly when the
\* header digest is the computed digest.
C39_ComparisonIsConstantTime ==
    calc.op = "verifyGitHubSignature" =>
        LET computed == HmacSha256Hex(WebhookSecret, calc.payload)
            given == SubSeq(calc.signature, 8, Len(calc.signature))
        IN  IF ~StartsWith(calc.signature, "sha256=")
            THEN ~calc.run.result /\ calc.run.hmacs = 0 /\ calc.run.comparisons = 0
            ELSE /\ calc.run.hmacs = 1
                 /\ Len(given) = Len(computed) => calc.run.comparisons = Len(computed)
                 /\ calc.run.result <=> given = computed
                 /\ calc.run.result =
                      verifyGitHubSignature(calc.payload, calc.signature, WebhookSecret)

\* A digest wrong in its first character only was compared to the end.
C39_Witness ==
    /\ calc.op = "verifyGitHubSignature"
    /\ LET computed == HmacSha256Hex(WebhookSecret, calc.payload)
       IN  /\ calc.signature = "sha256=" \o FlipAt(computed, 1)
           /\ calc.run.comparisons = Len(computed)
           /\ ~calc.run.result
====
